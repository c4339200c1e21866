------------------------- MODULE Arguments_proofs --------------------------
(***************************************************************************)
(* Proofs about Arguments, for every signature, packet and order of        *)
(* evaluation: what is sent fits, no extraction reads beyond the packet,   *)
(* the callback is called exactly for packets that hold the declared       *)
(* arguments, and then with what was sent.                                 *)
(***************************************************************************)
EXTENDS Arguments, SequenceTheorems, WellFoundedInduction, TLAPS

Count     == Len(sig.sent)
Evaluated == [i \in 1..Len(sig.received) |-> sig.received[order[i]]]

Fixed ==
    /\ sig \in Signatures
    /\ order \in [1..Count -> 1..Count]
    /\ phase \in {"send", "receive", "done", "undefined"}
    /\ next \in 1..(Count + 1)
    /\ packet \in Seq(Bytes) /\ Len(packet) < ByteMod
    /\ phase = "send" \/ args # None =>
           DOMAIN args = 1..Count /\ \A i \in 1..Count : args[i] \in Objects(sig.sent[i])

\* How far the receiver is: without an error the position and what is left
\* make up the packet, after one nothing is left.
Position ==
    /\ pos \in Nat /\ dataLeft \in Nat /\ readTo \in Nat /\ error \in BOOLEAN
    /\ readTo <= Len(packet)
    /\ phase \in {"send", "undefined"} => pos = 0 /\ readTo = 0 /\ ~error
    /\ phase \in {"receive", "done"} =>
           IF error THEN dataLeft = 0 ELSE pos + dataLeft = Len(packet)

\* The first k arguments lie in the packet between these cuts.
Splits(cut, k) ==
    /\ cut[0] = 0
    /\ \A i \in 1..k : Encodes(Evaluated[i], SubSeq(packet, cut[i - 1] + 1, cut[i]))
CutsOf == [0..Count -> 0..Len(packet)]

\* There is one way to split the packet into the arguments that have been
\* extracted, and it ends at the position; after an error there is none.
Split ==
    /\ phase \in {"receive", "done"} /\ error => ~ \E cut \in CutsOf : Splits(cut, Count)
    /\ phase \in {"receive", "done"} /\ ~error =>
           /\ \E cut \in CutsOf : Splits(cut, next - 1) /\ cut[next - 1] = pos
           /\ \A cut \in CutsOf : Splits(cut, Count) => cut[next - 1] = pos
    /\ phase = "done" => next = Count + 1 /\ (outcome = "called" <=> ~error)

\* The arguments written so far need no more room than their types, and all
\* types together no more than there is.
TypeSizes == [i \in 1..Count |-> SizeOf(sig.sent[i])]
Needed    == Sums(TypeSizes)
Room ==
    /\ phase # "undefined"
    /\ phase = "send" => Len(packet) <= Needed[next - 1]
    /\ Needed[Count] <= kMaxAllowedArgumentSize

\* Where the arguments of a packet that was sent end, and what lies there.
ByteSizes == [i \in 1..Count |-> serialize_size(sig.sent[i], args[i])]
Ends      == Sums(ByteSizes)
Written(k) ==
    /\ Len(packet) = Ends[k]
    /\ \A i \in 1..k : \A j \in 1..ByteSizes[i] : packet[Ends[i - 1] + j] = args[i][j]
Delivery ==
    /\ phase = "send" => Written(next - 1)
    /\ args # None /\ phase \in {"receive", "done"} => Written(Count)

\* What RoundTrip asks of the command and its arguments.
Matching ==
    /\ args # None
    /\ InOrder
    /\ \A i \in 1..Count : /\ CanHold(sig.received[i], sig.sent[i])
                          /\ SaysItsLength(sig.sent[i], args[i])

\* The receiver then takes one argument after the other.
Received ==
    /\ DOMAIN got = 1..Count
    /\ Matching /\ phase \in {"receive", "done"} =>
           /\ ~error
           /\ pos = Ends[next - 1]
           /\ \A i \in 1..(next - 1) : got[i] = SubSeq(args[i], 1, ByteSizes[i])

-----------------------------------------------------------------------------
(* Sums *)

\* A set of natural numbers that is not empty has a least member.
LEMMA LeastMember ==
    ASSUME NEW T, T \subseteq Nat, T # {}
    PROVE  \E n \in T : \A m \in T : n <= m
  <1> DEFINE R == OpToRel(<, Nat)
  <1>1. IsWellFoundedOn(R, Nat)
    BY NatLessThanWellFounded
  <1>2. \A x, y \in Nat : x < y => <<x, y>> \in R
    BY DEF OpToRel
  <1> HIDE DEF R
  <1>3. \E x \in T : \A y \in T : ~ (<<y, x>> \in R)
    BY <1>1, WFMin
  <1>4. PICK n \in T : \A y \in T : ~ (<<y, n>> \in R)
    BY <1>3
  <1>5. \A m \in T : ~ (m < n)
    BY <1>2, <1>4
  <1> QED BY <1>5

\* r holds the sums of the first 0, ..., n of the sizes.
AddsUp(r, sizes, n) ==
    /\ r \in [0..n -> Nat]
    /\ r[0] = 0
    /\ \A i \in 1..n : r[i] = r[i - 1] + sizes[i]

LEMMA SumsExist ==
    ASSUME NEW n \in Nat, NEW sizes \in [1..n -> Nat]
    PROVE  \E r : AddsUp(r, sizes, n)
  <1> DEFINE T == {k \in 0..n : ~ \E r : AddsUp(r, sizes, k)}
  <1>1. T \subseteq 0..n /\ T \subseteq Nat
    OBVIOUS
  <1>2. \A k \in 0..n : k \notin T <=> \E r : AddsUp(r, sizes, k)
    OBVIOUS
  <1> HIDE DEF T
  <1>3. SUFFICES ASSUME T # {} PROVE FALSE
    BY <1>2
  <1>4. PICK k \in T : \A m \in T : k <= m
    BY <1>1, <1>3, LeastMember
  <1>5. k # 0
    <2>1. AddsUp([i \in 0..0 |-> 0], sizes, 0)
      BY DEF AddsUp
    <2> QED BY <1>2, <2>1
  <1>6. k \in 1..n /\ k - 1 \in 0..n /\ k - 1 \in Nat
    BY <1>1, <1>4, <1>5
  <1>7. k - 1 \notin T
    BY <1>4, <1>6
  <1>8. PICK r : AddsUp(r, sizes, k - 1)
    BY <1>2, <1>6, <1>7
  <1> DEFINE q == [i \in 0..k |-> IF i = k THEN r[k - 1] + sizes[k] ELSE r[i]]
  <1>9. \A i \in 0..k : i # k => i \in 0..(k - 1)
    BY <1>6
  <1>10. r[k - 1] \in Nat /\ sizes[k] \in Nat
    BY <1>6, <1>8 DEF AddsUp
  <1>11. q \in [0..k -> Nat] /\ q[0] = 0
    BY <1>6, <1>8, <1>9, <1>10 DEF AddsUp
  <1>12. \A i \in 1..k : q[i] = q[i - 1] + sizes[i]
    <2> TAKE i \in 1..k
    <2>1. i \in 0..k /\ i - 1 \in 0..k /\ i - 1 # k
      BY <1>6
    <2>2. q[i - 1] = r[i - 1] /\ q[i] = IF i = k THEN r[k - 1] + sizes[k] ELSE r[i]
      BY <2>1
    <2>3. i # k => i \in 1..(k - 1)
      BY <1>6
    <2> HIDE DEF q
    <2> QED BY <1>8, <2>2, <2>3 DEF AddsUp
  <1>13. AddsUp(q, sizes, k)
    <2> HIDE DEF q
    <2> QED BY <1>11, <1>12 DEF AddsUp
  <1> QED BY <1>2, <1>1, <1>4, <1>13

LEMMA SumsAddUp ==
    ASSUME NEW n \in Nat, NEW sizes \in [1..n -> Nat]
    PROVE  AddsUp(Sums(sizes), sizes, n)
  <1> DEFINE D(r) == [i \in 0..n |-> IF i = 0 THEN 0 ELSE r[i - 1] + sizes[i]]
             s == CHOOSE r : r = D(r)
  <1>1. PICK r : AddsUp(r, sizes, n)
    BY SumsExist
  <1>2. \A i \in 0..n : i # 0 => i \in 1..n
    OBVIOUS
  <1>3. r = D(r)
    BY <1>1, <1>2 DEF AddsUp
  <1>4. s = D(s)
    <2> HIDE DEF D
    <2> QED BY <1>3
  <1>5. Sums(sizes) = s
    <2>1. Len(sizes) = n
      OBVIOUS
    <2> QED BY <2>1 DEF Sums
  <1> HIDE DEF s
  <1>6. s[0] = 0 /\ \A i \in 1..n : s[i] = s[i - 1] + sizes[i]
    BY <1>4
  \* s and r are the same.
  <1> DEFINE T == {k \in 0..n : s[k] # r[k]}
  <1>7. T \subseteq Nat /\ T \subseteq 0..n /\ \A k \in 0..n : k \notin T => s[k] = r[k]
    OBVIOUS
  <1>8. \A k \in T : s[k] # r[k]
    OBVIOUS
  <1> HIDE DEF T, D
  <1>9. T = {}
    <2> SUFFICES ASSUME T # {} PROVE FALSE
      OBVIOUS
    <2>1. PICK k \in T : \A m \in T : k <= m
      BY <1>7, LeastMember
    <2>2. k \in 1..n /\ k - 1 \in 0..n
      BY <1>1, <1>6, <1>7, <1>8 DEF AddsUp
    <2>3. k - 1 \notin T
      BY <2>1, <2>2
    <2>4. s[k - 1] = r[k - 1]
      BY <1>7, <2>2, <2>3
    <2> QED BY <1>1, <1>6, <1>8, <2>2, <2>4 DEF AddsUp
  <1>10. \A i \in 0..n : s[i] = r[i]
    BY <1>7, <1>9
  <1>11. s = [i \in 0..n |-> s[i]]
    BY <1>4 DEF D
  <1>12. s \in [0..n -> Nat]
    BY <1>1, <1>10, <1>11 DEF AddsUp
  <1> QED BY <1>5, <1>6, <1>12 DEF AddsUp

\* The sums only grow.
LEMMA SumsGrow ==
    ASSUME NEW n \in Nat, NEW sizes \in [1..n -> Nat], NEW r, AddsUp(r, sizes, n),
           NEW i \in 0..n, NEW j \in i..n
    PROVE  r[i] <= r[j]
  <1> DEFINE T == {k \in i..n : ~ (r[i] <= r[k])}
  <1>1. \A k \in i..n : r[k] \in Nat /\ k \in Nat
    BY DEF AddsUp
  <1>2. T \subseteq Nat /\ T \subseteq i..n /\ i \notin T
    BY <1>1
  <1>3. \A k \in i..n : k \notin T <=> r[i] <= r[k]
    OBVIOUS
  <1> HIDE DEF T
  <1>4. SUFFICES ASSUME T # {} PROVE FALSE
    BY <1>3
  <1>5. PICK k \in T : \A m \in T : k <= m
    BY <1>2, <1>4, LeastMember
  <1>6. k \in 1..n /\ k - 1 \in i..n /\ k \in i..n
    BY <1>2
  <1>7. k - 1 \notin T
    BY <1>5, <1>6
  <1>8. r[k] = r[k - 1] + sizes[k] /\ sizes[k] \in Nat
    BY <1>6 DEF AddsUp
  <1>9. r[i] \in Nat /\ r[k - 1] \in Nat
    BY <1>1, <1>6
  <1> QED BY <1>3, <1>6, <1>7, <1>8, <1>9
-----------------------------------------------------------------------------
\* Whole elements leave no remainder.
LEMMA MultipleRemainder ==
    ASSUME NEW a \in Nat, NEW b \in Nat \ {0}
    PROVE  (a * b) % b = 0
  OBVIOUS

\* The bytes that are sent of an object are inside it, and there is at least
\* one; an object that says its length is sent so far, and its own type
\* accepts that.
LEMMA ObjectBytes ==
    ASSUME NEW t, Sendable(t), NEW v \in Objects(t)
    PROVE  /\ v \in Seq(Bytes)
           /\ Len(v) = SizeOf(t)
           /\ serialize_size(t, v) \in 1..Len(v)
           /\ IF Raw(t) THEN serialize_size(t, v) = t.el
              ELSE /\ Accepts(t, v[1])
                   /\ SaysItsLength(t, v) => serialize_size(t, v) = v[1] + 1
  <1>0. ByteMod \in Nat \ {0}
    BY ArgumentsAssumption
  <1>1. t.n \in Nat /\ t.el \in Nat \ {0} /\ t.kind \in Kinds /\ SizeOf(t) < ByteMod
    BY DEF Sendable, Types
  <1>2. CASE Raw(t)
    <2>0. Objects(t) = {[i \in 1..t.el |-> ByteMod - i]}
      BY <1>2 DEF Objects, Raw
    <2>1. v = [i \in 1..t.el |-> ByteMod - i] /\ t.el < ByteMod
      BY <1>1, <1>2, <2>0 DEF SizeOf, Raw
    <2>2. v \in [1..t.el -> Bytes] /\ Len(v) = t.el
      BY <1>0, <1>1, <2>1 DEF Bytes
    <2>3. v \in Seq(Bytes)
      BY <1>0, <1>1, <2>2
    <2>4. serialize_size(t, v) = t.el
      BY <1>2 DEF serialize_size, Raw
    <2>5. SizeOf(t) = t.el
      BY <1>2 DEF SizeOf, Raw
    <2> QED BY <1>1, <1>2, <2>2, <2>3, <2>4, <2>5
  <1>3. ASSUME NEW len \in Nat, NEW size \in Nat, len < size, size < ByteMod,
               v = Holding(len, size)
        PROVE  v \in Seq(Bytes) /\ Len(v) = size /\ v[1] = len
    <2>1. v = [i \in 1..size |-> IF i = 1 THEN len ELSE ByteMod - i]
      BY <1>3 DEF Holding
    <2>2. v \in [1..size -> Bytes] /\ Len(v) = size /\ v[1] = len
      BY <1>0, <1>3, <2>1 DEF Bytes
    <2> QED BY <2>2
  <1>4. CASE t.kind = "str"
    <2>1. PICK len \in 0..(t.n - 1) : v = Holding(len, t.n)
      BY <1>4 DEF Objects, StrObjects, Raw
    <2>2. t.n < ByteMod
      BY <1>0, <1>1, <1>4 DEF SizeOf, Raw
    <2>3. v \in Seq(Bytes) /\ Len(v) = t.n /\ v[1] = len
      BY <1>0, <1>1, <1>3, <2>1, <2>2
    <2>4. serialize_size(t, v) = (len + 1) % ByteMod
      BY <1>4, <2>3 DEF serialize_size, StrSize, Raw
    <2>5. (len + 1) % ByteMod = len + 1
      BY <1>0, <1>1, <2>1, <2>2
    <2>6. SizeOf(t) = t.n /\ ~Raw(t) /\ Accepts(t, len)
      BY <1>1, <1>4, <2>1 DEF SizeOf, Raw, Accepts, StrAccepts
    <2> QED BY <1>0, <1>1, <2>1, <2>3, <2>4, <2>5, <2>6
  <1>5. CASE t.kind = "bin"
    <2>1. PICK len \in 0..(t.n - 1) : v = Holding(len, t.n)
      BY <1>5 DEF Objects, BinObjects, Raw
    <2>2. t.n < ByteMod
      BY <1>0, <1>1, <1>5 DEF SizeOf, Raw
    <2>3. v \in Seq(Bytes) /\ Len(v) = t.n /\ v[1] = len
      BY <1>0, <1>1, <1>3, <2>1, <2>2
    <2>4. serialize_size(t, v) = t.n % ByteMod
      BY <1>5 DEF serialize_size, BinSize, Raw
    <2>5. t.n % ByteMod = t.n
      BY <1>0, <1>1, <2>2
    <2>6. SizeOf(t) = t.n /\ ~Raw(t) /\ Accepts(t, len)
      BY <1>1, <1>5, <2>1 DEF SizeOf, Raw, Accepts, BinAccepts
    <2>7. SaysItsLength(t, v) => t.n = v[1] + 1
      BY <1>1, <1>5, <2>1, <2>3 DEF SaysItsLength
    <2> QED BY <1>0, <1>1, <2>1, <2>3, <2>4, <2>5, <2>6, <2>7, SMTT(30)
  <1>6. CASE t.kind = "array"
    <2>1. PICK m \in 0..t.n : v = Holding(m * t.el, 1 + t.n * t.el)
      BY <1>6 DEF Objects, ArrayObjects, Raw
    <2>2. 1 + t.n * t.el < ByteMod
      BY <1>0, <1>1, <1>6 DEF SizeOf, Raw
    <2>3. m * t.el \in Nat /\ t.n * t.el \in Nat /\ m * t.el <= t.n * t.el
      <3>1. \A a, b, c \in Nat : a <= b => a * c \in Nat /\ b * c \in Nat /\ a * c <= b * c
        OBVIOUS
      <3> QED BY <1>1, <2>1, <3>1
    <2>4. v \in Seq(Bytes) /\ Len(v) = 1 + t.n * t.el /\ v[1] = m * t.el
      BY <1>0, <1>1, <1>3, <2>1, <2>2, <2>3
    <2>5. serialize_size(t, v) = (m * t.el + 1) % ByteMod
      BY <1>6, <2>4 DEF serialize_size, ArraySize, Raw
    <2>6. (m * t.el + 1) % ByteMod = m * t.el + 1
      BY <1>0, <1>1, <2>2, <2>3
    <2>7. Accepts(t, m * t.el)
      <3>1. (m * t.el) % t.el = 0
        BY <1>1, <2>1, MultipleRemainder
      <3> QED BY <1>6, <2>3, <3>1 DEF Accepts, ArrayAccepts
    <2>8. SizeOf(t) = 1 + t.n * t.el /\ ~Raw(t)
      BY <1>6 DEF SizeOf, Raw
    <2> DEFINE a == m * t.el
               b == t.n * t.el
    <2>9. /\ Len(v) = 1 + b /\ v[1] = a /\ serialize_size(t, v) = a + 1
          /\ a \in Nat /\ b \in Nat /\ a <= b /\ Accepts(t, a) /\ SizeOf(t) = 1 + b
      BY <2>3, <2>4, <2>5, <2>6, <2>7, <2>8
    <2> HIDE DEF a, b
    <2> QED BY <2>4, <2>8, <2>9
  <1>7. CASE t.kind = "typed"
    <2>1. v = Holding(t.el, 1 + t.el)
      BY <1>7 DEF Objects, TypedObjects, Raw
    <2>2. 1 + t.el < ByteMod
      BY <1>0, <1>1, <1>7 DEF SizeOf, Raw
    <2>3. v \in Seq(Bytes) /\ Len(v) = 1 + t.el /\ v[1] = t.el
      BY <1>0, <1>1, <1>3, <2>1, <2>2
    <2>4. serialize_size(t, v) = (t.el + 1) % ByteMod
      BY <1>7 DEF serialize_size, TypedSize, Raw
    <2>5. (t.el + 1) % ByteMod = t.el + 1
      BY <1>0, <1>1, <2>2
    <2>6. SizeOf(t) = 1 + t.el /\ ~Raw(t) /\ Accepts(t, t.el)
      BY <1>7 DEF SizeOf, Raw, Accepts, TypedAccepts
    <2> QED BY <1>0, <1>1, <2>3, <2>4, <2>5, <2>6, SMTT(30)
  <1> QED BY <1>1, <1>2, <1>4, <1>5, <1>6, <1>7 DEF Sendable, Kinds, Raw

-----------------------------------------------------------------------------
(* The way of one extraction *)

LEMMA SigFacts ==
    ASSUME Fixed
    PROVE  /\ Count \in Nat /\ Count = Len(sig.sent) /\ Count = Len(sig.received)
           /\ \A i \in 1..Count : Sendable(sig.sent[i]) /\ sig.received[i] \in Types
           /\ DOMAIN Evaluated = 1..Count /\ Len(Evaluated) = Count
           /\ \A i \in 1..Count : Evaluated[i] = sig.received[order[i]] /\ Evaluated[i] \in Types
  <1>1. /\ sig \in [sent : Seq(Types), received : Seq(Types)]
        /\ Len(sig.sent) = Len(sig.received)
        /\ \A i \in 1..Len(sig.sent) : Sendable(sig.sent[i])
    BY ArgumentsAssumption DEF Fixed
  <1>2. sig.received \in Seq(Types) /\ sig.sent \in Seq(Types)
    BY <1>1
  <1>3. Count \in Nat /\ Count = Len(sig.received) /\ Count = Len(sig.sent)
    BY <1>1, <1>2 DEF Count
  <1>4. \A i \in 1..Count : sig.received[i] \in Types
    BY <1>2, <1>3, ElementOfSeq
  <1>5. \A i \in 1..Count : order[i] \in 1..Count
    BY DEF Fixed
  <1>6. Evaluated = [i \in 1..Count |-> sig.received[order[i]]]
    BY <1>3 DEF Evaluated
  <1>7. DOMAIN Evaluated = 1..Count /\ Len(Evaluated) = Count
    BY <1>3, <1>6
  <1> QED BY <1>1, <1>3, <1>4, <1>5, <1>6, <1>7

\* When an argument fits, its size is at least one and within what is left, the
\* position moves over just that, and the bytes are an encoding of the type.
LEMMA FittingArgument ==
    ASSUME Fixed, Position, phase = "receive", next <= Len(sig.received),
           Fits(Type, dataLeft, First)
    PROVE  /\ ~error /\ next \in 1..Count
           /\ Type = Evaluated[next]
           /\ Size(Type, First) \in 1..dataLeft
           /\ Used(Type, First) = Size(Type, First)
           /\ First \in Nat /\ (~Raw(Type) => First = packet[pos + 1])
  <1>0. ByteMod \in Nat \ {0} /\ packet \in Seq(Bytes) /\ Len(packet) \in Nat /\ Len(packet) < ByteMod
    BY ArgumentsAssumption DEF Fixed
  <1>1. next \in 1..Count /\ Type = Evaluated[next] /\ Type \in Types
    BY SigFacts DEF Fixed, Type, Nth
  <1>2. Type.el \in Nat \ {0}
    BY <1>1 DEF Types
  <1>3. pos \in Nat /\ dataLeft \in Nat
    BY DEF Position
  <1>4. dataLeft >= 1
    BY <1>2, <1>3 DEF Fits
  <1>5. ~error /\ pos + dataLeft = Len(packet)
    BY <1>4 DEF Position
  <1>6. First = packet[pos + 1] /\ First \in Bytes
    BY <1>0, <1>3, <1>4, <1>5, ElementOfSeq DEF First
  <1>7. First \in Nat
    BY <1>0, <1>6 DEF Bytes
  <1>8. CASE Raw(Type)
    <2>1. dataLeft >= Type.el
      BY <1>8 DEF Fits
    <2>2. Size(Type, First) = Type.el /\ Type.kind # "view"
      BY <1>8 DEF Size, Raw
    <2> QED BY <1>1, <1>2, <1>3, <1>5, <1>6, <1>7, <2>1, <2>2 DEF Used
  <1>9. CASE ~Raw(Type)
    <2>1. First < dataLeft /\ Size(Type, First) = First + 1
      BY <1>9 DEF Fits, Size
    <2>2. First + 1 < ByteMod
      BY <1>0, <1>3, <1>5, <1>7, <2>1
    <2>3. (First + 1) % ByteMod = First + 1
      BY <1>0, <1>7, <2>2
    <2>4. Used(Type, First) = Size(Type, First)
      BY <2>1, <2>3 DEF Used, ViewMoves
    <2> QED BY <1>1, <1>3, <1>5, <1>6, <1>7, <2>1, <2>4
  <1> QED BY <1>8, <1>9

\* A part of the packet that encodes a type fits, and is as long as its first
\* byte says.
LEMMA EncodingFits ==
    ASSUME Fixed, NEW t \in Types, NEW from \in 0..Len(packet), NEW to \in 0..Len(packet),
           Encodes(t, SubSeq(packet, from + 1, to))
    PROVE  /\ from < to
           /\ Fits(t, Len(packet) - from, packet[from + 1])
           /\ to = from + Size(t, packet[from + 1])
  <1>1. packet \in Seq(Bytes) /\ Len(packet) \in Nat
    BY DEF Fixed
  <1>2. \A i \in (from + 1)..to : packet[i] \in Bytes
    BY <1>1, ElementOfSeq
  <1>3. /\ Len(SubSeq(packet, from + 1, to)) = IF from + 1 <= to THEN to - from ELSE 0
        /\ \A i \in 1..(to - from) : SubSeq(packet, from + 1, to)[i] = packet[from + i]
    <2>1. /\ Len(SubSeq(packet, from + 1, to)) = IF from + 1 <= to THEN to - (from + 1) + 1 ELSE 0
          /\ \A i \in 1..(to - (from + 1) + 1) :
                 SubSeq(packet, from + 1, to)[i] = packet[(from + 1) + i - 1]
      BY <1>1, <1>2, SubSeqProperties
    <2> QED BY <2>1
  <1>4. t.el \in Nat \ {0}
    BY DEF Types
  <1>5. Len(SubSeq(packet, from + 1, to)) >= 1
    BY <1>1, <1>3, <1>4 DEF Encodes
  <1>6. from < to /\ Len(SubSeq(packet, from + 1, to)) = to - from
    BY <1>1, <1>3, <1>5
  <1>7. SubSeq(packet, from + 1, to)[1] = packet[from + 1]
    BY <1>1, <1>3, <1>6
  <1>8. packet[from + 1] \in Nat
    BY <1>1, <1>2, <1>6, ArgumentsAssumption, SMTT(30) DEF Bytes
  <1> QED BY <1>1, <1>4, <1>6, <1>7, <1>8 DEF Encodes, Fits, Size

\* What fits is an encoding of the type.
LEMMA FittingEncodes ==
    ASSUME Fixed, NEW t \in Types, NEW from \in Nat, NEW left \in Nat,
           from + left = Len(packet), Fits(t, left, packet[from + 1]),
           Size(t, packet[from + 1]) \in 1..left
    PROVE  Encodes(t, SubSeq(packet, from + 1, from + Size(t, packet[from + 1])))
  <1> DEFINE size == Size(t, packet[from + 1])
             part == SubSeq(packet, from + 1, from + size)
  <1>1. packet \in Seq(Bytes) /\ Len(packet) \in Nat /\ size \in 1..left
    BY DEF Fixed
  <1>2. \A i \in (from + 1)..(from + size) : packet[i] \in Bytes
    BY <1>1, ElementOfSeq
  <1>3. /\ Len(part) = IF from + 1 <= from + size THEN from + size - (from + 1) + 1 ELSE 0
        /\ \A i \in 1..(from + size - (from + 1) + 1) : part[i] = packet[(from + 1) + i - 1]
    BY <1>1, <1>2, SubSeqProperties
  <1>4. Len(part) = size /\ part[1] = packet[from + 1]
    <2> HIDE DEF size, part
    <2>1. 1 \in 1..(from + size - (from + 1) + 1) /\ (from + 1) + 1 - 1 = from + 1
      BY <1>1
    <2> QED BY <1>1, <1>3, <2>1
  <1>5. CASE Raw(t)
    BY <1>4, <1>5 DEF Encodes, Size
  <1>6. CASE ~Raw(t)
    <2>1. size = packet[from + 1] + 1 /\ Accepts(t, packet[from + 1])
      BY <1>6 DEF Size, Fits
    <2> HIDE DEF size, part
    <2>2. Encodes(t, part)
      BY <1>1, <1>4, <1>6, <2>1 DEF Encodes
    <2> QED BY <2>2 DEF size, part
  <1> QED BY <1>5, <1>6

-----------------------------------------------------------------------------
LEMMA InitInv == Init => Fixed /\ Position /\ Split
  <1> SUFFICES ASSUME Init PROVE Fixed /\ Position /\ Split
    OBVIOUS
  <1>1. sig \in Signatures /\ order \in Orders[Count]
    BY DEF Init, Count
  <1>2. sig \in [sent : Seq(Types), received : Seq(Types)] /\ Orders[Count] \subseteq [1..Count -> 1..Count]
    BY <1>1, ArgumentsAssumption DEF Count
  <1>3. Count \in Nat
    BY <1>2 DEF Count
  <1>4. packet \in Seq(Bytes) /\ Len(packet) \in Nat /\ Len(packet) < ByteMod
    <2>1. CASE packet = <<>>
      BY <2>1, ArgumentsAssumption
    <2>2. CASE packet \in Foreign
      BY <2>2, ArgumentsAssumption
    <2> QED BY <2>1, <2>2 DEF Init
  <1>5. Fixed
    <2>1. phase = "send" \/ args # None =>
              DOMAIN args = 1..Count /\ \A i \in 1..Count : args[i] \in Objects(sig.sent[i])
      BY DEF Init, Count
    <2>2. phase \in {"send", "receive"} /\ next = 1
      BY DEF Init
    <2> QED BY <1>1, <1>2, <1>3, <1>4, <2>1, <2>2 DEF Fixed
  <1>6. Position
    <2>1. /\ phase \in {"send", "receive"} /\ pos = 0 /\ readTo = 0 /\ error = FALSE
          /\ dataLeft = Len(packet)
      BY DEF Init
    <2>2. /\ pos \in Nat /\ dataLeft \in Nat /\ readTo \in Nat /\ readTo <= Len(packet)
          /\ pos + dataLeft = Len(packet)
      BY <1>4, <2>1
    <2>3. error \in BOOLEAN /\ ~error
      BY <2>1
    <2> QED BY <2>1, <2>2, <2>3 DEF Position
  <1>7. Split
    <2>1. /\ ~error /\ phase # "done" /\ next = 1 /\ pos = 0
      BY DEF Init
    <2>2. [i \in 0..Count |-> 0] \in CutsOf
      BY <1>3, <1>4 DEF CutsOf
    <2>3. Splits([i \in 0..Count |-> 0], 0) /\ [i \in 0..Count |-> 0][0] = 0
      BY <1>3 DEF Splits
    <2>4. \A cut \in CutsOf : Splits(cut, Count) => cut[0] = 0
      BY DEF Splits
    <2>5. next - 1 = 0
      BY <2>1
    <2>6. \E cut \in CutsOf : Splits(cut, next - 1) /\ cut[next - 1] = pos
      <3> HIDE DEF Count
      <3> WITNESS [i \in 0..Count |-> 0] \in CutsOf
      <3> QED BY <2>1, <2>3, <2>5
    <2> QED BY <2>1, <2>4, <2>5, <2>6 DEF Split
  <1> QED BY <1>5, <1>6, <1>7

LEMMA StepFixed == Fixed /\ [Next]_vars => Fixed'
  <1> SUFFICES ASSUME Fixed, [Next]_vars PROVE Fixed'
    OBVIOUS
  <1>0. kMaxAllowedArgumentSize \in Nat /\ kMaxAllowedArgumentSize < ByteMod /\ ByteMod \in Nat
    BY ArgumentsAssumption
  <1>1. CASE SerializeArg
    <2>1. next \in 1..Count /\ phase = "send" /\ Count \in Nat
      BY <1>1, SigFacts DEF SerializeArg, Fixed, Count
    <2> DEFINE v    == args[next]
               size == serialize_size(sig.sent[next], v)
    <2>2. v \in Seq(Bytes) /\ size \in 0..Len(v)
      BY <2>1, SigFacts, ObjectBytes DEF Fixed
    <2>3. SubSeq(v, 1, size) \in Seq(Bytes) /\ Len(SubSeq(v, 1, size)) = size
      <3>1. \A i \in 1..size : v[i] \in Bytes
        BY <2>2, ElementOfSeq
      <3>2. size \in Nat
        BY <2>2
      <3> HIDE DEF size, v
      <3> QED BY <3>1, <3>2, SubSeqProperties
    <2>4. packet' \in Seq(Bytes) /\ Len(packet') < ByteMod
      <3>1. CASE packet' = packet
        BY <3>1 DEF Fixed
      <3>2. CASE Len(packet) + size <= kMaxAllowedArgumentSize /\ packet' = packet \o SubSeq(v, 1, size)
        <4>1. packet \in Seq(Bytes)
          BY DEF Fixed
        <4>2. packet' \in Seq(Bytes) /\ Len(packet') = Len(packet) + size
          BY <2>3, <3>2, <4>1, ConcatProperties
        <4> QED BY <1>0, <2>2, <3>2, <4>1, <4>2
      <3> QED BY <1>1, <3>1, <3>2 DEF SerializeArg
    <2>5. /\ UNCHANGED <<sig, args, order>> /\ next' = next + 1
          /\ phase' \in {"send", "undefined"}
      BY <1>1, <2>1 DEF SerializeArg, sender
    <2> QED BY <2>1, <2>4, <2>5 DEF Fixed, Count
  <1>2. CASE FinishAndSend
    BY <1>2, SigFacts DEF FinishAndSend, sender, Fixed, Count
  <1>3. CASE ExtractArg \/ ExtractFails
    <2>1. next \in 1..Count /\ next' = next + 1 /\ UNCHANGED <<sig, args, order, phase, packet>>
      BY <1>3, SigFacts DEF ExtractArg, ExtractFails, sender, Fixed
    <2> QED BY <2>1, SigFacts DEF Fixed, Count
  <1>4. CASE call_cmd
    BY <1>4 DEF call_cmd, sender, Fixed, Count
  <1>5. CASE UNCHANGED vars
    BY <1>5 DEF vars, sender, receiver, Fixed, Count
  <1> QED BY <1>1, <1>2, <1>3, <1>4, <1>5 DEF Next

LEMMA StepPosition == Fixed /\ Position /\ [Next]_vars => Position'
  <1> SUFFICES ASSUME Fixed, Position, [Next]_vars PROVE Position'
    OBVIOUS
  <1>0. Len(packet) \in Nat /\ packet \in Seq(Bytes)
    BY DEF Fixed
  <1>1. CASE SerializeArg
    <2>1. /\ UNCHANGED <<pos, dataLeft, error, readTo>> /\ phase = "send"
          /\ phase' \in {"send", "undefined"}
      BY <1>1 DEF SerializeArg, receiver
    <2>2. Len(packet') \in Nat
      BY StepFixed DEF Fixed
    <2> QED BY <2>1, <2>2 DEF Position
  <1>2. CASE FinishAndSend
    <2>1. /\ phase = "send" /\ phase' = "receive" /\ dataLeft' = Len(packet)
          /\ UNCHANGED <<packet, pos, error, readTo>>
      BY <1>2 DEF FinishAndSend
    <2>2. pos = 0 /\ readTo = 0 /\ ~error /\ error \in BOOLEAN
      BY <2>1 DEF Position
    <2> QED BY <1>0, <2>1, <2>2 DEF Position
  <1>3. CASE ExtractArg
    <2>1. /\ Size(Type, First) \in 1..dataLeft /\ ~error
          /\ Used(Type, First) = Size(Type, First)
      BY <1>3, FittingArgument DEF ExtractArg
    <2>2. /\ pos' = pos + Used(Type, First) /\ dataLeft' = dataLeft - Used(Type, First)
          /\ readTo' = pos + Size(Type, First)
          /\ phase = "receive" /\ UNCHANGED <<phase, packet, error>>
      BY <1>3 DEF ExtractArg
    <2> HIDE DEF Size, Used, Type, First
    <2> QED BY <1>0, <2>1, <2>2 DEF Position
  <1>4. CASE ExtractFails
    <2>1. phase = "receive" /\ UNCHANGED <<phase, packet>> /\ error' = TRUE /\ dataLeft' = 0
      BY <1>4 DEF ExtractFails
    <2>2. readTo' = readTo \/ (dataLeft # 0 /\ readTo' = pos + 1)
      BY <1>4 DEF ExtractFails
    <2>3. pos' \in Nat
      <3>1. Type \in Types
        BY <1>4, SigFacts DEF ExtractFails, Fixed, Type, Nth
      <3>2. Type.el \in Nat
        BY <3>1 DEF Types
      <3> QED BY <1>4, <3>2 DEF ExtractFails, Position
    <2> QED BY <1>0, <2>1, <2>2, <2>3 DEF Position
  <1>5. CASE call_cmd
    BY <1>5 DEF call_cmd, Position
  <1>6. CASE UNCHANGED vars
    BY <1>6 DEF vars, receiver, Position
  <1> QED BY <1>1, <1>2, <1>3, <1>4, <1>5, <1>6 DEF Next

\* A packet that can be split goes on with an argument that fits.
LEMMA NextCut ==
    ASSUME Fixed, Position, Split, phase = "receive", next <= Len(sig.received),
           NEW cut \in CutsOf, Splits(cut, Count)
    PROVE  /\ ~error
           /\ Fits(Type, dataLeft, First)
           /\ cut[next] = pos + Size(Type, First)
  <1>1. ~error /\ error \in BOOLEAN /\ cut[next - 1] = pos
    BY DEF Split, Position
  <1>2. next \in 1..Count /\ Type = Evaluated[next] /\ Type \in Types /\ Count \in Nat
    BY SigFacts DEF Fixed, Type, Nth
  <1>3. cut[next - 1] \in 0..Len(packet) /\ cut[next] \in 0..Len(packet)
    <2>1. next - 1 \in 0..Count /\ next \in 0..Count
      BY <1>2
    <2> QED BY <2>1 DEF CutsOf
  <1>4. Encodes(Type, SubSeq(packet, pos + 1, cut[next]))
    BY <1>1, <1>2 DEF Splits
  <1>5. /\ pos < cut[next]
        /\ Fits(Type, Len(packet) - pos, packet[pos + 1])
        /\ cut[next] = pos + Size(Type, packet[pos + 1])
    BY <1>1, <1>2, <1>3, <1>4, EncodingFits
  <1>6. Len(packet) \in Nat /\ pos \in Nat /\ dataLeft \in Nat /\ pos + dataLeft = Len(packet)
    BY <1>1 DEF Fixed, Position
  <1>7. First = packet[pos + 1] /\ dataLeft = Len(packet) - pos
    BY <1>3, <1>5, <1>6 DEF First
  <1> QED BY <1>1, <1>5, <1>7

\* A split of what has been extracted is extended by an argument that fits.
LEMMA LongerSplit ==
    ASSUME Fixed, Position, phase = "receive", next <= Len(sig.received),
           Fits(Type, dataLeft, First),
           NEW cut \in CutsOf, Splits(cut, next - 1), cut[next - 1] = pos
    PROVE  \E longer \in CutsOf :
               Splits(longer, next) /\ longer[next] = pos + Size(Type, First)
  <1> DEFINE end == pos + Size(Type, First)
             longer == [cut EXCEPT ![next] = end]
  <1>1. /\ ~error /\ next \in 1..Count /\ Type = Evaluated[next]
        /\ Size(Type, First) \in 1..dataLeft
    BY FittingArgument
  <1>2. /\ pos \in Nat /\ dataLeft \in Nat /\ pos + dataLeft = Len(packet) /\ Len(packet) \in Nat
    BY <1>1 DEF Position, Fixed
  <1>3. First = packet[pos + 1]
    BY <1>1, <1>2 DEF First
  <1>4. Type \in Types /\ Count \in Nat
    BY <1>1, SigFacts
  <1>5. Encodes(Type, SubSeq(packet, pos + 1, end))
    BY <1>1, <1>2, <1>3, <1>4, FittingEncodes
  <1>6. end \in 0..Len(packet)
    <2> HIDE DEF end
    <2>1. \A n \in 1..dataLeft : pos + n \in 0..Len(packet)
      BY <1>2
    <2> QED BY <1>1, <2>1 DEF end
  <1>7. cut \in [0..Count -> 0..Len(packet)]
    BY DEF CutsOf
  <1>8. /\ longer \in [0..Count -> 0..Len(packet)]
        /\ longer[next] = end
        /\ \A i \in 0..Count : i # next => longer[i] = cut[i]
    <2> HIDE DEF end
    <2>1. next \in 0..Count
      BY <1>1, <1>4
    <2> QED BY <1>6, <1>7, <2>1
  <1> HIDE DEF longer, end
  <1>9. longer[0] = 0
    BY <1>1, <1>4, <1>8 DEF Splits
  <1>10. \A i \in 1..next : Encodes(Evaluated[i], SubSeq(packet, longer[i - 1] + 1, longer[i]))
    <2> TAKE i \in 1..next
    <2>1. CASE i = next
      <3>1. longer[i - 1] = pos
        BY <1>1, <1>4, <1>8, <2>1
      <3> QED BY <1>1, <1>5, <1>8, <2>1, <3>1
    <2>2. CASE i # next
      <3>1. i \in 1..(next - 1) /\ i \in 0..Count /\ i - 1 \in 0..Count /\ i - 1 # next
        BY <1>1, <1>4, <2>2
      <3>2. longer[i - 1] = cut[i - 1] /\ longer[i] = cut[i]
        BY <1>8, <2>2, <3>1
      <3> QED BY <3>1, <3>2 DEF Splits
    <2> QED BY <2>1, <2>2
  <1> QED BY <1>8, <1>9, <1>10 DEF Splits, CutsOf, end

\* A step that leaves the signature, the order and the packet alone changes
\* no split.
LEMMA SameSplits ==
    ASSUME UNCHANGED <<sig, order, packet>>
    PROVE  /\ Count' = Count /\ CutsOf' = CutsOf /\ Evaluated' = Evaluated
           /\ \A cut, k : Splits(cut, k)' <=> Splits(cut, k)
  BY DEF Count, CutsOf, Evaluated, Splits

LEMMA StepSplit == Fixed /\ Position /\ Split /\ [Next]_vars => Split'
  <1> SUFFICES ASSUME Fixed, Position, Split, [Next]_vars PROVE Split'
    OBVIOUS
  <1>0. Count \in Nat /\ next \in 1..(Count + 1) /\ error \in BOOLEAN /\ Count = Len(sig.received)
    BY SigFacts DEF Fixed, Position
  <1>1. CASE SerializeArg
    BY <1>1 DEF SerializeArg, Split
  <1>2. CASE FinishAndSend
    <2>1. /\ phase' = "receive" /\ next' = 1 /\ UNCHANGED <<sig, order, packet, pos, error>>
          /\ pos = 0 /\ ~error
      BY <1>2 DEF FinishAndSend, sender, Position
    <2>2. [i \in 0..Count |-> 0] \in CutsOf /\ next' - 1 = 0
      BY <1>0, <2>1 DEF CutsOf, Fixed
    <2>3. Splits([i \in 0..Count |-> 0], 0) /\ [i \in 0..Count |-> 0][0] = 0
      BY <1>0 DEF Splits
    <2>4. \A cut : Splits(cut, Count) => cut[0] = 0
      BY DEF Splits
    <2>5. \E cut \in CutsOf : Splits(cut, next' - 1) /\ cut[next' - 1] = pos
      BY <2>1, <2>2, <2>3
    <2> QED BY <2>1, <2>2, <2>4, <2>5, SameSplits DEF Split
  <1>3. CASE ExtractArg
    <2>1. /\ phase = "receive" /\ next <= Len(sig.received) /\ Fits(Type, dataLeft, First)
          /\ pos' = pos + Used(Type, First) /\ next' = next + 1
          /\ UNCHANGED <<sig, order, packet, phase, error>>
      BY <1>3 DEF ExtractArg, sender
    <2>2. ~error /\ pos' = pos + Size(Type, First)
      BY <2>1, FittingArgument
    <2>3. next' - 1 = next
      BY <1>0, <2>1
    <2>4. PICK cut \in CutsOf : Splits(cut, next - 1) /\ cut[next - 1] = pos
      BY <2>1, <2>2 DEF Split
    <2>5. \E longer \in CutsOf : Splits(longer, next) /\ longer[next] = pos'
      BY <2>1, <2>2, <2>4, LongerSplit
    <2>6. \A c \in CutsOf : Splits(c, Count) => c[next] = pos'
      BY <2>1, <2>2, NextCut
    <2> QED BY <2>1, <2>2, <2>3, <2>5, <2>6, SameSplits DEF Split
  <1>4. CASE ExtractFails
    <2>1. /\ phase = "receive" /\ next <= Len(sig.received) /\ ~ Fits(Type, dataLeft, First)
          /\ error' = TRUE /\ UNCHANGED <<sig, order, packet, phase>>
      BY <1>4 DEF ExtractFails, sender
    <2>2. ~ \E cut \in CutsOf : Splits(cut, Count)
      BY <2>1, NextCut
    <2> QED BY <2>1, <2>2, SameSplits DEF Split
  <1>5. CASE call_cmd
    <2>1. /\ phase = "receive" /\ next > Len(sig.received) /\ phase' = "done"
          /\ outcome' = IF error THEN "illegal_request" ELSE "called"
          /\ UNCHANGED <<sig, order, packet, next, pos, error>>
      BY <1>5 DEF call_cmd, sender
    <2>2. next = Count + 1
      BY <1>0, <2>1
    <2> QED BY <1>0, <2>1, <2>2, SameSplits DEF Split
  <1>6. CASE UNCHANGED vars
    <2>1. UNCHANGED <<sig, order, packet, phase, next, pos, error, outcome>>
      BY <1>6 DEF vars, sender, receiver
    <2> QED BY <2>1, SameSplits DEF Split
  <1> QED BY <1>1, <1>2, <1>3, <1>4, <1>5, <1>6 DEF Next

-----------------------------------------------------------------------------
(* What is sent fits and arrives *)

\* The size of a type that can be sent is a natural number.
LEMMA SizeOfSendable ==
    ASSUME NEW t, Sendable(t)
    PROVE  SizeOf(t) \in Nat
  <1>1. t.n \in Nat /\ t.el \in Nat /\ t.kind \in Kinds /\ t.kind \notin {"view", "buf"}
    BY DEF Sendable, Types
  <1>2. t.n * t.el \in Nat
    BY <1>1
  <1> DEFINE b == t.n * t.el
  <1>3. SizeOf(t) \in {t.el, t.n, 1 + b, 1 + t.el}
    BY <1>1 DEF SizeOf, Kinds, Raw
  <1> HIDE DEF b
  <1>4. b \in Nat
    BY <1>2 DEF b
  <1> QED BY <1>1, <1>3, <1>4

LEMMA SizeFacts ==
    ASSUME Fixed
    PROVE  /\ Count \in Nat
           /\ TypeSizes \in [1..Count -> Nat] /\ AddsUp(Needed, TypeSizes, Count)
           /\ phase = "send" \/ args # None =>
                  /\ ByteSizes \in [1..Count -> Nat] /\ AddsUp(Ends, ByteSizes, Count)
                  /\ \A i \in 1..Count : /\ args[i] \in Seq(Bytes)
                                        /\ Len(args[i]) = TypeSizes[i]
                                        /\ ByteSizes[i] \in 1..TypeSizes[i]
  <1>1. Count \in Nat /\ \A i \in 1..Count : Sendable(sig.sent[i])
    BY SigFacts
  <1>2. TypeSizes \in [1..Count -> Nat]
    BY <1>1, SizeOfSendable DEF TypeSizes
  <1>3. AddsUp(Needed, TypeSizes, Count)
    BY <1>1, <1>2, SumsAddUp DEF Needed
  <1>4. ASSUME phase = "send" \/ args # None
        PROVE  /\ ByteSizes \in [1..Count -> Nat] /\ AddsUp(Ends, ByteSizes, Count)
               /\ \A i \in 1..Count : /\ args[i] \in Seq(Bytes)
                                     /\ Len(args[i]) = TypeSizes[i]
                                     /\ ByteSizes[i] \in 1..TypeSizes[i]
    <2>1. \A i \in 1..Count : args[i] \in Objects(sig.sent[i])
      BY <1>4 DEF Fixed
    <2>2. \A i \in 1..Count : /\ args[i] \in Seq(Bytes)
                              /\ Len(args[i]) = SizeOf(sig.sent[i])
                              /\ serialize_size(sig.sent[i], args[i]) \in 1..Len(args[i])
      BY <1>1, <2>1, ObjectBytes
    <2>3. \A i \in 1..Count : /\ args[i] \in Seq(Bytes)
                              /\ Len(args[i]) = TypeSizes[i]
                              /\ ByteSizes[i] \in 1..TypeSizes[i]
      BY <2>2 DEF TypeSizes, ByteSizes
    <2>4. \A i \in 1..Count : ByteSizes[i] \in Nat
      BY <1>2, <2>3
    <2>5. ByteSizes \in [1..Count -> Nat]
      BY <2>4 DEF ByteSizes
    <2> QED BY <1>1, <2>3, <2>5, SumsAddUp DEF Ends
  <1> QED BY <1>1, <1>2, <1>3, <1>4

\* The numbers that depend on the command alone do not change.
LEMMA SameSizes ==
    ASSUME UNCHANGED <<sig, args, order>>
    PROVE  /\ Count' = Count /\ TypeSizes' = TypeSizes /\ Needed' = Needed
           /\ ByteSizes' = ByteSizes /\ Ends' = Ends /\ Matching' = Matching
  <1>1. Count' = Count
    BY DEF Count
  <1>2. TypeSizes' = TypeSizes
    BY <1>1 DEF TypeSizes
  <1>3. ByteSizes' = ByteSizes
    BY <1>1 DEF ByteSizes
  <1>4. Matching' = Matching
    BY <1>1 DEF Matching, InOrder
  <1> QED BY <1>1, <1>2, <1>3, <1>4 DEF Needed, Ends

LEMMA InitDelivery == Init => Room /\ Delivery /\ Received
  <1> SUFFICES ASSUME Init PROVE Room /\ Delivery /\ Received
    OBVIOUS
  <1>1. Fixed
    BY InitInv
  <1>2. /\ phase \in {"send", "receive"} /\ next = 1 /\ next - 1 = 0
        /\ phase = "send" => packet = <<>>
        /\ phase = "receive" => args = None
        /\ DOMAIN got = 1..Count
    BY DEF Init, Count
  <1>3. Needed[Count] <= kMaxAllowedArgumentSize
    <2>1. g_ParamsTotalSize(sig.sent) <= kMaxAllowedArgumentSize
      BY DEF Init
    <2>2. sig.sent \in Seq(Types)
      BY <1>1, ArgumentsAssumption DEF Fixed
    <2>3. TypeSizes = [i \in DOMAIN sig.sent |-> SizeOf(sig.sent[i])]
      BY <2>2 DEF TypeSizes, Count
    <2> QED BY <2>1, <2>3 DEF g_ParamsTotalSize, Needed, Count
  <1>4. Room
    <2>1. Needed[0] = 0
      BY <1>1, SizeFacts DEF AddsUp
    <2>2. phase = "send" => Len(packet) = 0
      BY <1>2
    <2> QED BY <1>2, <1>3, <2>1, <2>2 DEF Room
  <1>5. Delivery
    <2>1. phase = "send" => Ends[0] = 0 /\ Len(packet) = 0
      BY <1>1, <1>2, SizeFacts DEF AddsUp
    <2> QED BY <1>2, <2>1 DEF Delivery, Written
  <1>6. Received
    <2>1. phase = "receive" => ~Matching
      BY <1>2 DEF Matching
    <2> QED BY <1>2, <2>1 DEF Received
  <1> QED BY <1>4, <1>5, <1>6

\* An argument that is written finds its room.
LEMMA WriteFits ==
    ASSUME Fixed, Room, SerializeArg
    PROVE  /\ next \in 1..Count
           /\ packet' = packet \o SubSeq(args[next], 1, ByteSizes[next])
           /\ phase = "send" /\ UNCHANGED <<sig, args, order, phase, got>> /\ next' = next + 1
           /\ Len(SubSeq(args[next], 1, ByteSizes[next])) = ByteSizes[next]
           /\ SubSeq(args[next], 1, ByteSizes[next]) \in Seq(Bytes)
           /\ \A j \in 1..ByteSizes[next] :
                  SubSeq(args[next], 1, ByteSizes[next])[j] = args[next][j]
           /\ Len(packet') = Len(packet) + ByteSizes[next]
           /\ Len(packet') <= Needed[next]
  <1> DEFINE size == ByteSizes[next]
             part == SubSeq(args[next], 1, size)
  <1>1. /\ phase = "send" /\ next \in 1..Count /\ Count \in Nat
        /\ UNCHANGED <<sig, args, order, got>> /\ next' = next + 1
    BY SizeFacts DEF SerializeArg, sender, receiver, Fixed, Count
  <1>2. /\ args[next] \in Seq(Bytes) /\ Len(args[next]) = TypeSizes[next]
        /\ size \in 1..TypeSizes[next] /\ TypeSizes[next] \in Nat
    BY <1>1, SizeFacts
  <1>3. size = serialize_size(sig.sent[next], args[next])
    BY <1>1 DEF ByteSizes
  <1> HIDE DEF size
  <1>4. /\ Needed[next] = Needed[next - 1] + TypeSizes[next]
        /\ Needed[next] <= Needed[Count]
        /\ Needed[next - 1] \in Nat /\ Needed[next] \in Nat /\ Needed[Count] \in Nat
    <2>1. AddsUp(Needed, TypeSizes, Count) /\ TypeSizes \in [1..Count -> Nat]
      BY SizeFacts
    <2>2. next \in 0..Count /\ next - 1 \in 0..Count /\ Count \in next..Count /\ Count \in 0..Count
      BY <1>1
    <2>3. Needed[next] <= Needed[Count]
      BY <1>1, <2>1, <2>2, SumsGrow
    <2> QED BY <1>1, <2>1, <2>2, <2>3 DEF AddsUp
  <1>5. packet \in Seq(Bytes) /\ Len(packet) \in Nat /\ kMaxAllowedArgumentSize \in Nat
    BY ArgumentsAssumption DEF Fixed
  <1>6. /\ Len(packet) + size <= Needed[next]
        /\ Len(packet) + size <= kMaxAllowedArgumentSize
    BY <1>1, <1>2, <1>4, <1>5, SMTT(30) DEF Room
  <1>7. packet' = packet \o part /\ UNCHANGED phase
    BY <1>3, <1>6 DEF SerializeArg
  <1>8. part \in Seq(Bytes) /\ Len(part) = size /\ \A j \in 1..size : part[j] = args[next][j]
    <2>1. \A j \in 1..size : args[next][j] \in Bytes
      BY <1>2, ElementOfSeq
    <2>2. /\ part \in Seq(Bytes) /\ Len(part) = IF 1 <= size THEN size - 1 + 1 ELSE 0
          /\ \A j \in 1..(size - 1 + 1) : part[j] = args[next][1 + j - 1]
      BY <1>2, <2>1, SubSeqProperties
    <2> QED BY <1>2, <2>2
  <1>9. Len(packet') = Len(packet) + size
    BY <1>5, <1>7, <1>8, ConcatProperties
  <1> QED BY <1>1, <1>6, <1>7, <1>8, <1>9 DEF size

LEMMA StepRoom == Fixed /\ Room /\ [Next]_vars => Room'
  <1> SUFFICES ASSUME Fixed, Room, [Next]_vars PROVE Room'
    OBVIOUS
  <1>1. CASE SerializeArg
    <2>1. next' - 1 = next
      BY <1>1, WriteFits
    <2> QED BY <1>1, <2>1, WriteFits, SameSizes DEF Room
  <1>2. CASE FinishAndSend \/ ExtractArg \/ ExtractFails \/ call_cmd
    <2>1. UNCHANGED <<sig, args, order>> /\ phase' \in {"receive", "done"}
      BY <1>2 DEF FinishAndSend, ExtractArg, ExtractFails, call_cmd, sender
    <2> QED BY <2>1, SameSizes DEF Room
  <1>3. CASE UNCHANGED vars
    <2>1. UNCHANGED <<sig, args, order, phase, packet, next>>
      BY <1>3 DEF vars, sender
    <2> QED BY <2>1, SameSizes DEF Room
  <1> QED BY <1>1, <1>2, <1>3 DEF Next

LEMMA StepDelivery == Fixed /\ Room /\ Delivery /\ [Next]_vars => Delivery'
  <1> SUFFICES ASSUME Fixed, Room, Delivery, [Next]_vars PROVE Delivery'
    OBVIOUS
  <1>1. CASE SerializeArg
    <2> DEFINE part == SubSeq(args[next], 1, ByteSizes[next])
    <2>1. /\ next \in 1..Count /\ packet' = packet \o part /\ phase = "send"
          /\ UNCHANGED <<sig, args, order, phase>> /\ next' - 1 = next
          /\ part \in Seq(Bytes) /\ Len(part) = ByteSizes[next]
          /\ \A j \in 1..ByteSizes[next] : part[j] = args[next][j]
          /\ Len(packet') = Len(packet) + ByteSizes[next]
      BY <1>1, WriteFits, SMTT(30)
    <2> HIDE DEF part
    <2>2. Written(next - 1) /\ packet \in Seq(Bytes) /\ Len(packet) \in Nat /\ Count \in Nat
      BY <2>1, SizeFacts DEF Delivery, Fixed
    <2>3. AddsUp(Ends, ByteSizes, Count) /\ ByteSizes \in [1..Count -> Nat]
      BY <2>1, SizeFacts
    <2>4. Ends[next] = Ends[next - 1] + ByteSizes[next] /\ Len(packet) = Ends[next - 1]
      BY <2>1, <2>2, <2>3 DEF AddsUp, Written
    <2>5. \A j \in 1..(Len(packet) + Len(part)) :
              packet'[j] = IF j <= Len(packet) THEN packet[j] ELSE part[j - Len(packet)]
      BY <2>1, <2>2, ConcatProperties
    <2>6. \A i \in 1..next : \A j \in 1..ByteSizes[i] : packet'[Ends[i - 1] + j] = args[i][j]
      <3> SUFFICES ASSUME NEW i \in 1..next, NEW j \in 1..ByteSizes[i]
                   PROVE  packet'[Ends[i - 1] + j] = args[i][j]
        OBVIOUS
      <3>1. /\ i \in 1..Count /\ i \in 0..Count /\ i - 1 \in 0..Count /\ next - 1 \in 0..Count
            /\ ByteSizes[i] \in Nat /\ Ends[i - 1] \in Nat /\ Ends[i] \in Nat
        BY <2>1, <2>2, <2>3, SMTT(30) DEF AddsUp
      <3>2. CASE i = next
        <4> DEFINE p == Ends[i - 1] + j
        <4>1. p \in 1..(Len(packet) + Len(part)) /\ ~ (p <= Len(packet)) /\ p - Len(packet) = j
          BY <2>1, <2>2, <2>4, <3>1, <3>2, SMTT(30)
        <4> HIDE DEF p
        <4>2. packet'[p] = part[j]
          BY <2>5, <4>1
        <4> QED BY <2>1, <3>2, <4>2 DEF p
      <3>3. CASE i # next
        <4> DEFINE p == Ends[i - 1] + j
        <4>1. i \in 1..(next - 1) /\ next - 1 \in i..Count
          BY <2>1, <2>2, <3>3
        <4>2. Ends[i] <= Ends[next - 1]
          BY <2>2, <2>3, <3>1, <4>1, SumsGrow
        <4>3. Ends[i] = Ends[i - 1] + ByteSizes[i]
          BY <2>3, <3>1 DEF AddsUp
        <4>4. p \in 1..(Len(packet) + Len(part)) /\ p <= Len(packet)
          <5>1. Len(part) \in Nat
            BY <2>1
          <5>2. \A e, b, l, m \in Nat : \A k \in 1..b :
                   e + b <= l => e + k \in 1..(l + m) /\ e + k <= l
            OBVIOUS
          <5>3. Ends[i - 1] + ByteSizes[i] <= Len(packet)
            BY <2>4, <4>2, <4>3
          <5> QED BY <2>2, <3>1, <5>1, <5>2, <5>3
        <4>5. packet[p] = args[i][j]
          BY <2>2, <4>1 DEF Written
        <4> HIDE DEF p
        <4>6. packet'[p] = packet[p]
          BY <2>5, <4>4
        <4> QED BY <4>5, <4>6 DEF p
      <3> QED BY <3>2, <3>3
    <2>7. Len(packet') = Ends[next]
      BY <2>1, <2>4
    <2>8. phase' = "send" /\ ByteSizes' = ByteSizes /\ Ends' = Ends /\ args' = args
      BY <2>1, SameSizes
    <2>9. /\ Len(packet') = Ends'[next' - 1]
          /\ \A i \in 1..(next' - 1) : \A j \in 1..ByteSizes'[i] :
                 packet'[Ends'[i - 1] + j] = args'[i][j]
      BY <2>1, <2>6, <2>7, <2>8, ZenonT(30)
    <2> QED BY <2>8, <2>9 DEF Delivery, Written
  <1>2. CASE FinishAndSend
    <2>1. /\ UNCHANGED <<sig, args, order, packet>> /\ phase = "send" /\ phase' = "receive"
          /\ next - 1 = Count
      BY <1>2, SizeFacts DEF FinishAndSend, sender, Fixed, Count
    <2>2. Written(Count)
      BY <2>1 DEF Delivery
    <2> QED BY <2>1, <2>2, SameSizes DEF Delivery, Written
  <1>3. CASE ExtractArg \/ ExtractFails \/ call_cmd
    <2>1. /\ UNCHANGED <<sig, args, order, packet>> /\ phase = "receive"
          /\ phase' \in {"receive", "done"}
      BY <1>3 DEF ExtractArg, ExtractFails, call_cmd, sender
    <2> QED BY <2>1, SameSizes DEF Delivery, Written
  <1>4. CASE UNCHANGED vars
    <2>1. UNCHANGED <<sig, args, order, phase, packet, next>>
      BY <1>4 DEF vars, sender
    <2> QED BY <2>1, SameSizes DEF Delivery, Written
  <1> QED BY <1>1, <1>2, <1>3, <1>4 DEF Next

\* To a receiver whose types match, the next argument fits and is as long as
\* what was written.
LEMMA NextArrives ==
    ASSUME Fixed, Position, Delivery, Received, Matching,
           phase = "receive", next <= Len(sig.received)
    PROVE  /\ next \in 1..Count /\ Nth = next
           /\ Fits(Type, dataLeft, First)
           /\ Size(Type, First) = ByteSizes[next]
           /\ pos = Ends[next - 1] /\ Ends[next] = pos + ByteSizes[next]
           /\ Ends[next] <= Len(packet)
  <1> DEFINE t == sig.sent[next]
             v == args[next]
             size == ByteSizes[next]
  <1>1. next \in 1..Count /\ Count \in Nat /\ Type = sig.received[Nth] /\ Sendable(t)
    BY SigFacts DEF Fixed, Type
  <1>2. Nth = next
    BY <1>1 DEF Matching, InOrder, Fixed, Nth
  <1>3. args # None /\ CanHold(Type, t) /\ SaysItsLength(t, v) /\ v \in Objects(t)
    BY <1>1, <1>2 DEF Matching, Fixed
  <1>4. /\ v \in Seq(Bytes) /\ Len(v) \in Nat /\ size \in 1..Len(v) /\ size = serialize_size(t, v)
        /\ IF Raw(t) THEN size = t.el ELSE Accepts(t, v[1]) /\ size = v[1] + 1
    <2>1. size = serialize_size(t, v)
      BY <1>1 DEF ByteSizes
    <2> HIDE DEF t, v, size
    <2> QED BY <1>1, <1>3, <2>1, ObjectBytes
  <1>5. Written(Count) /\ AddsUp(Ends, ByteSizes, Count) /\ ByteSizes \in [1..Count -> Nat]
    BY <1>3, SizeFacts DEF Delivery
  <1>6. /\ Ends[next] = Ends[next - 1] + size /\ Ends[next] <= Ends[Count]
        /\ Ends[next - 1] \in Nat /\ Ends[next] \in Nat
    <2>1. next \in 0..Count /\ next - 1 \in 0..Count /\ Count \in next..Count
      BY <1>1
    <2>2. Ends[next] <= Ends[Count]
      BY <1>1, <1>5, <2>1, SumsGrow
    <2> QED BY <1>1, <1>5, <2>1, <2>2 DEF AddsUp
  <1>7. Len(packet) = Ends[Count] /\ Len(packet) \in Nat
    BY <1>5 DEF Written, Fixed
  <1>8. ~error /\ pos = Ends[next - 1] /\ dataLeft \in Nat /\ pos + dataLeft = Len(packet)
    BY DEF Received, Position
  <1>9. size <= dataLeft /\ pos < Len(packet) /\ size \in Nat \ {0}
    <2> HIDE DEF size, v
    <2> QED BY <1>4, <1>6, <1>7, <1>8
  <1>10. First = v[1] /\ v[1] \in Bytes
    <2>1. packet[Ends[next - 1] + 1] = v[1]
      <3>1. 1 \in 1..size
        BY <1>9
      <3> QED BY <1>1, <1>5, <3>1 DEF Written
    <2>2. First = packet[pos + 1]
      BY <1>9 DEF First
    <2>3. 1 \in 1..Len(v)
      BY <1>4, <1>9
    <2>4. v[1] \in Bytes
      BY <1>4, <2>3, ElementOfSeq
    <2> QED BY <1>8, <2>1, <2>2, <2>4
  <1>11. Fits(Type, dataLeft, First) /\ Size(Type, First) = size
    <2> HIDE DEF t, v, size
    <2>1. CASE Raw(t)
      BY <1>3, <1>4, <1>8, <1>9, <2>1 DEF CanHold, Fits, Size
    <2>2. CASE ~Raw(t)
      <3>1. ~Raw(Type) /\ Accepts(Type, First) /\ size = First + 1
        BY <1>3, <1>4, <1>10, <2>2 DEF CanHold
      <3>2. First \in Nat
        BY <1>10, ArgumentsAssumption DEF Bytes
      <3>3. First < dataLeft /\ dataLeft >= 1
        BY <1>8, <1>9, <3>1, <3>2
      <3> QED BY <3>1, <3>3 DEF Fits, Size
    <2> QED BY <2>1, <2>2
  <1> QED BY <1>1, <1>2, <1>6, <1>7, <1>8, <1>11

LEMMA StepReceived ==
    Fixed /\ Position /\ Delivery /\ Received /\ [Next]_vars => Received'
  <1> SUFFICES ASSUME Fixed, Position, Delivery, Received, [Next]_vars PROVE Received'
    OBVIOUS
  <1>1. CASE SerializeArg
    <2>1. /\ UNCHANGED <<sig, args, order, got>> /\ phase' \in {"send", "undefined"}
      BY <1>1 DEF SerializeArg, sender, receiver
    <2>2. Count' = Count
      BY <2>1 DEF Count
    <2> QED BY <2>1, <2>2 DEF Received
  <1>2. CASE FinishAndSend
    <2>1. /\ UNCHANGED <<sig, args, order, got, pos, error>> /\ phase = "send" /\ next' = 1
      BY <1>2 DEF FinishAndSend, sender
    <2>2. pos = 0 /\ ~error /\ Ends[0] = 0 /\ next' - 1 = 0
      BY <2>1, SizeFacts DEF Position, AddsUp
    <2> QED BY <2>1, <2>2, SameSizes DEF Received
  <1>3. CASE ExtractArg
    <2>1. /\ phase = "receive" /\ next <= Len(sig.received) /\ Fits(Type, dataLeft, First)
          /\ UNCHANGED <<sig, args, order, phase, packet, error>> /\ next' = next + 1
          /\ pos' = pos + Used(Type, First)
          /\ got' = [got EXCEPT ![Nth] = SubSeq(packet, pos + 1,
                                   Least(pos + Size(Type, First), Len(packet)))]
      BY <1>3 DEF ExtractArg, sender
    <2>2. DOMAIN got' = 1..Count
      BY <2>1 DEF Received
    <2>3. ASSUME Matching
          PROVE  /\ ~error /\ pos' = Ends[next' - 1]
                 /\ \A i \in 1..(next' - 1) : got'[i] = SubSeq(args[i], 1, ByteSizes[i])
      <3> DEFINE size == ByteSizes[next]
                 v == args[next]
      <3>1. /\ next \in 1..Count /\ Nth = next /\ Size(Type, First) = size
            /\ pos = Ends[next - 1] /\ Ends[next] = pos + size
            /\ Ends[next] <= Len(packet)
        BY <2>1, <2>3, NextArrives
      <3>2. Used(Type, First) = size /\ ~error
        BY <2>1, <3>1, FittingArgument
      <3>3. /\ args # None /\ Written(Count) /\ v \in Seq(Bytes) /\ Len(v) = TypeSizes[next]
            /\ size \in 1..Len(v) /\ Len(v) \in Nat
        BY <2>1, <2>3, <3>1, SizeFacts DEF Delivery, Matching
      <3>4. \A j \in 1..size : packet[pos + j] = v[j]
        BY <3>1, <3>3 DEF Written
      <3> HIDE DEF size, v
      <3>5. pos \in Nat /\ Len(packet) \in Nat /\ packet \in Seq(Bytes) /\ size \in Nat /\ next \in Nat
        BY <3>1, <3>3 DEF Position, Fixed
      <3>6. Least(pos + size, Len(packet)) = pos + size
        BY <3>1, <3>5 DEF Least
      <3>7. SubSeq(packet, pos + 1, pos + size) = SubSeq(v, 1, size)
        <4> DEFINE end == pos + size
                   from == pos + 1
        <4>1. /\ from \in Int /\ end \in Int /\ from <= end /\ end - from + 1 = size
              /\ \A j \in from..end : j \in 1..Len(packet)
              /\ \A j \in 1..size : from + j - 1 = pos + j /\ 1 + j - 1 = j
          <5>1. \A p, n, l \in Nat : 1 <= n /\ p + n <= l =>
                   /\ p + 1 <= p + n /\ p + n - (p + 1) + 1 = n
                   /\ \A j \in (p + 1)..(p + n) : j \in 1..l
                   /\ \A j \in 1..n : p + 1 + j - 1 = p + j /\ 1 + j - 1 = j
            OBVIOUS
          <5>2. 1 <= size /\ pos + size <= Len(packet)
            BY <3>1, <3>3, <3>5
          <5> QED BY <3>5, <5>1, <5>2
        <4>2. \A j \in from..end : packet[j] \in Bytes
          BY <3>5, <4>1, ElementOfSeq
        <4>3. \A j \in 1..size : v[j] \in Bytes
          BY <3>3, ElementOfSeq
        <4> HIDE DEF end, from
        <4>4. /\ SubSeq(packet, from, end) \in Seq(Bytes) /\ Len(SubSeq(packet, from, end)) = size
              /\ \A j \in 1..size : SubSeq(packet, from, end)[j] = packet[pos + j]
          <5>1. /\ SubSeq(packet, from, end) \in Seq(Bytes)
                /\ Len(SubSeq(packet, from, end)) = IF from <= end THEN end - from + 1 ELSE 0
                /\ \A j \in 1..(end - from + 1) : SubSeq(packet, from, end)[j] = packet[from + j - 1]
            BY <4>1, <4>2, SubSeqProperties
          <5> QED BY <4>1, <5>1
        <4>5. /\ SubSeq(v, 1, size) \in Seq(Bytes) /\ Len(SubSeq(v, 1, size)) = size
              /\ \A j \in 1..size : SubSeq(v, 1, size)[j] = v[j]
          <5>1. /\ SubSeq(v, 1, size) \in Seq(Bytes)
                /\ Len(SubSeq(v, 1, size)) = IF 1 <= size THEN size - 1 + 1 ELSE 0
                /\ \A j \in 1..(size - 1 + 1) : SubSeq(v, 1, size)[j] = v[1 + j - 1]
            BY <3>5, <4>3, SubSeqProperties
          <5>2. 1 <= size /\ size - 1 + 1 = size
            BY <3>3, <3>5
          <5> QED BY <4>1, <5>1, <5>2
        <4>6. SubSeq(packet, from, end) = SubSeq(v, 1, size)
          BY <3>4, <4>4, <4>5, SeqEqual
        <4> QED BY <4>6 DEF from, end
      <3>8. got' = [got EXCEPT ![next] = SubSeq(v, 1, size)]
        BY <2>1, <3>1, <3>6, <3>7
      <3>9. next' - 1 = next /\ pos' = Ends[next]
        BY <2>1, <3>1, <3>2, <3>5
      <3>10. \A i \in 1..next : got'[i] = SubSeq(args[i], 1, ByteSizes[i])
        <4> TAKE i \in 1..next
        <4>1. CASE i = next
          BY <3>1, <3>8, <4>1 DEF Received, size, v
        <4>2. CASE i # next
          <5>1. i \in 1..(next - 1)
            BY <3>1, <4>2
          <5> QED BY <2>1, <2>3, <3>1, <3>8, <4>2, <5>1 DEF Received
        <4> QED BY <4>1, <4>2
      <3> QED BY <3>2, <3>9, <3>10
    <2>4. /\ Count' = Count /\ Matching' = Matching /\ Ends' = Ends /\ ByteSizes' = ByteSizes
          /\ error' = error /\ args' = args
      BY <2>1, SameSizes
    <2> QED BY <2>2, <2>3, <2>4 DEF Received
  <1>4. CASE ExtractFails
    <2>1. /\ phase = "receive" /\ next <= Len(sig.received) /\ ~Fits(Type, dataLeft, First)
          /\ UNCHANGED <<sig, args, order, got>>
      BY <1>4 DEF ExtractFails, sender
    <2>2. ~Matching
      BY <2>1, NextArrives
    <2> QED BY <2>1, <2>2, SameSizes DEF Received
  <1>5. CASE call_cmd
    <2>1. /\ UNCHANGED <<sig, args, order, got, pos, error, next>> /\ phase = "receive"
      BY <1>5 DEF call_cmd, sender
    <2> QED BY <2>1, SameSizes DEF Received
  <1>6. CASE UNCHANGED vars
    <2>1. UNCHANGED <<sig, args, order, got, pos, error, next, phase>>
      BY <1>6 DEF vars, sender, receiver
    <2> QED BY <2>1, SameSizes DEF Received
  <1> QED BY <1>1, <1>2, <1>3, <1>4, <1>5, <1>6 DEF Next

-----------------------------------------------------------------------------
Inv == Fixed /\ Position /\ Split /\ Room /\ Delivery /\ Received

LEMMA Invariance == Spec => []Inv
  <1>1. Init => Inv
    BY InitInv, InitDelivery DEF Inv
  <1>2. Inv /\ [Next]_vars => Inv'
    BY StepFixed, StepPosition, StepSplit, StepRoom, StepDelivery, StepReceived DEF Inv
  <1> QED BY <1>1, <1>2, PTL DEF Spec

\* No byte beyond the packet is read, for every signature, packet and order of
\* evaluation.
THEOREM PacketOnly == Spec => []ReadsInside
  <1>1. Inv => ReadsInside
    BY DEF Inv, Position, ReadsInside
  <1> QED BY <1>1, Invariance, PTL

\* The callback is called for those packets, and only those, that hold
\* encodings of the declared types in the order of evaluation.
THEOREM CalledExactly == Spec => []CalledIfWellFormed
  <1>1. Inv => CalledIfWellFormed
    <2> SUFFICES ASSUME Inv, phase = "done"
                 PROVE  outcome = "called" <=> BeginsWith(Evaluated)
      BY DEF CalledIfWellFormed, Evaluated
    <2>1. error \in BOOLEAN /\ (outcome = "called" <=> ~error) /\ next = Count + 1 /\ Count \in Nat
      BY SigFacts DEF Inv, Position, Split
    <2>2. next - 1 = Count
      BY <2>1
    <2>3. ~error <=> \E cut \in CutsOf : Splits(cut, Count)
      BY <2>1, <2>2 DEF Inv, Split
    <2>4. Len(Evaluated) = Count
      BY SigFacts DEF Inv
    <2>5. BeginsWith(Evaluated) <=> \E cut \in CutsOf : Splits(cut, Count)
      BY <2>4 DEF BeginsWith, CutsOf, Splits
    <2> QED BY <2>1, <2>3, <2>5
  <1> QED BY <1>1, Invariance, PTL

\* The arguments always fit: the static_assert of send_cmd on the sizes of the
\* types is enough for send_cmd_raw to dereference what serialize_to returns.
THEOREM ArgumentsAlwaysFit == Spec => []ArgumentsFit
  <1>1. Inv => ArgumentsFit
    BY DEF Inv, Room, ArgumentsFit
  <1> QED BY <1>1, Invariance, PTL

\* A receiver whose types match is called with the bytes that were sent, if the
\* arguments are evaluated from left to right.
THEOREM ArgumentsArrive == Spec => []RoundTrip
  <1>1. Inv => RoundTrip
    <2> SUFFICES ASSUME Inv, FromPeer, InOrder,
                        \A i \in DOMAIN args : /\ CanHold(sig.received[i], sig.sent[i])
                                              /\ SaysItsLength(sig.sent[i], args[i])
                 PROVE  /\ outcome = "called"
                        /\ \A i \in DOMAIN args :
                               got[i] = SubSeq(args[i], 1, IF Raw(sig.sent[i]) THEN sig.sent[i].el
                                                                             ELSE args[i][1] + 1)
      BY DEF RoundTrip
    <2>1. args # None /\ phase = "done" /\ DOMAIN args = 1..Count /\ Count \in Nat
      BY SigFacts DEF FromPeer, Inv, Fixed
    <2>2. Matching
      BY <2>1 DEF Matching
    <2>3. ~error /\ outcome = "called" /\ next = Count + 1
      BY <2>1, <2>2 DEF Inv, Received, Split
    <2>4. \A i \in 1..Count : got[i] = SubSeq(args[i], 1, ByteSizes[i])
      <3>1. next - 1 = Count
        BY <2>1, <2>3
      <3> QED BY <2>1, <2>2, <3>1 DEF Inv, Received
    <2>5. ASSUME NEW i \in 1..Count
          PROVE  ByteSizes[i] = IF Raw(sig.sent[i]) THEN sig.sent[i].el ELSE args[i][1] + 1
      <3>1. Sendable(sig.sent[i]) /\ args[i] \in Objects(sig.sent[i])
        BY <2>1, SigFacts DEF Inv, Fixed
      <3> QED BY <2>1, <3>1, ObjectBytes DEF ByteSizes
    <2> QED BY <2>1, <2>3, <2>4, <2>5
  <1> QED BY <1>1, Invariance, PTL
=============================================================================
