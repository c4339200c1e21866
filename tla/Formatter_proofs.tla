-------------------------- MODULE Formatter_proofs --------------------------
(***************************************************************************)
(* Proofs about Formatter, for every format, all arguments and buffers of  *)
(* every size: what is printed of an argument is a text, however long,     *)
(* neither the format nor the buffer is left behind, what ends up in the   *)
(* buffer is the text the format stands for, and a number that is printed  *)
(* reads back as the value it had.                                         *)
(***************************************************************************)
EXTENDS Formatter, SequenceTheorems, WellFoundedInduction, TLAPS

\* A sequence, of whatever it is.
IsText(s) == \E S : s \in Seq(S)

\* The text to be put begins before a backslash that escapes a brace; the
\* buffer has room for what is in it.
Inv ==
    /\ call \in Calls
    /\ pos \in 1..(Len(call.format) + 1) /\ pBegin \in 1..pos
    /\ prev = "\\" => pBegin < pos
    /\ arg \in Nat
    /\ IsText(mem) /\ Len(mem) <= Room(call)
    /\ ended \in BOOLEAN /\ (ended => call.autoZero)
    /\ outcome # "undefined"

-----------------------------------------------------------------------------
(* Sequences *)

\* A set of natural numbers that is not empty has a least member.
LEMMA LeastMember ==
    ASSUME NEW T, T \subseteq Nat, T # {}
    PROVE  \E n \in T : \A m \in T : n <= m
  <1> DEFINE R == OpToRel(<, Nat)
  <1>1. IsWellFoundedOn(R, Nat)
    BY NatLessThanWellFounded
  <1>2. \A x, y \in Nat : x < y => <<x, y>> \in R
    BY DEF OpToRel
  <1> HIDE DEF R
  <1>3. \E x \in T : \A y \in T : ~ (<<y, x>> \in R)
    BY <1>1, WFMin
  <1>4. PICK n \in T : \A y \in T : ~ (<<y, n>> \in R)
    BY <1>3
  <1>5. \A m \in T : ~ (m < n)
    BY <1>2, <1>4
  <1> QED BY <1>5

\* What depends on no type of the elements.
LEMMA TextLength == ASSUME NEW s, IsText(s) PROVE Len(s) \in Nat /\ DOMAIN s = 1..Len(s)
  <1>1. PICK S : s \in Seq(S)
    BY DEF IsText
  <1> QED BY <1>1

LEMMA Joined == ASSUME NEW s, NEW t, IsText(s), IsText(t) PROVE IsText(s \o t)
  <1>1. PICK S : s \in Seq(S)
    BY DEF IsText
  <1>2. PICK T : t \in Seq(T)
    BY DEF IsText
  <1>3. s \in Seq(S \cup T) /\ t \in Seq(S \cup T)
    BY <1>1, <1>2, SeqMonotonic
  <1>4. s \o t \in Seq(S \cup T)
    BY <1>3
  <1> QED BY <1>4 DEF IsText

LEMMA Part ==
    ASSUME NEW s, NEW m \in Int, NEW n \in Int
    PROVE  /\ IsText(SubSeq(s, m, n))
           /\ Len(SubSeq(s, m, n)) = IF m <= n THEN n - m + 1 ELSE 0
           /\ \A i \in 1..(n - m + 1) : SubSeq(s, m, n)[i] = s[m + i - 1]
  <1> DEFINE S == {s[i] : i \in m..n}
  <1>1. \A i \in m..n : s[i] \in S
    OBVIOUS
  <1> HIDE DEF S
  <1>2. SubSeq(s, m, n) \in Seq(S)
    BY <1>1, SubSeqProperties
  <1>3. Len(SubSeq(s, m, n)) = IF m <= n THEN n - m + 1 ELSE 0
    BY <1>1, SubSeqProperties
  <1>4. \A i \in 1..(n - m + 1) : SubSeq(s, m, n)[i] = s[m + i - 1]
    BY <1>1, SubSeqProperties
  <1> QED BY <1>2, <1>3, <1>4 DEF IsText

LEMMA Extended == ASSUME NEW s, NEW x, IsText(s) PROVE IsText(Append(s, x))
  <1>1. PICK S : s \in Seq(S)
    BY DEF IsText
  <1>2. s \in Seq(S \cup {x})
    BY <1>1, SeqMonotonic
  <1>3. Append(s, x) \in Seq(S \cup {x})
    BY <1>2
  <1> QED BY <1>3 DEF IsText

LEMMA Listed ==
    ASSUME NEW n \in Nat, NEW s, s = [i \in 1..n |-> s[i]]
    PROVE  IsText(s) /\ Len(s) = n
  <1> DEFINE S == {s[i] : i \in 1..n}
  <1>1. \A i \in 1..n : s[i] \in S
    OBVIOUS
  <1> HIDE DEF S
  <1>2. s \in [1..n -> S]
    BY <1>1
  <1>3. s \in Seq(S) /\ Len(s) = n
    BY <1>2
  <1> QED BY <1>3 DEF IsText

LEMMA Strings == \A s \in Seq(STRING) : IsText(s)
  BY DEF IsText

\* FlattenSeq, step by step: f[i] joins the first i texts.
LEMMA FlatExists ==
    ASSUME NEW seqs, NEW n \in Nat
    PROVE  \E f : f = [i \in 1..n |-> IF i = 1 THEN seqs[i] ELSE f[i - 1] \o seqs[i]]
  <1> DEFINE Flat(f, k) == f = [i \in 1..k |-> IF i = 1 THEN seqs[i] ELSE f[i - 1] \o seqs[i]]
             T == {k \in 0..n : ~ \E f : Flat(f, k)}
  <1> HIDE DEF Flat
  <1>1. T \subseteq Nat /\ T \subseteq 0..n
    OBVIOUS
  <1>2. \A k \in 0..n : k \notin T <=> \E f : Flat(f, k)
    OBVIOUS
  <1> HIDE DEF T
  <1>3. T = {}
    <2> SUFFICES ASSUME T # {} PROVE FALSE
      OBVIOUS
    <2>1. PICK k \in T : \A m \in T : k <= m
      BY <1>1, LeastMember
    <2>2. CASE k = 0
      <3> DEFINE e == [i \in 1..0 |-> seqs[i]]
      <3>1. Flat(e, 0)
        BY DEF Flat
      <3> QED BY <1>2, <2>1, <2>2, <3>1
    <2>3. CASE k # 0
      <3>1. k \in 1..n /\ k \in Nat /\ k - 1 \in 0..n /\ k - 1 \notin T
        BY <1>1, <2>1, <2>3
      <3>2. PICK f : Flat(f, k - 1)
        BY <1>2, <3>1
      <3> DEFINE last == IF k = 1 THEN seqs[k] ELSE f[k - 1] \o seqs[k]
                 g == [i \in 1..k |-> IF i = k THEN last ELSE f[i]]
      <3>3. ASSUME NEW i \in 1..k
            PROVE  g[i] = IF i = 1 THEN seqs[i] ELSE g[i - 1] \o seqs[i]
        <4>1. i # 1 => i - 1 \in 1..k /\ i - 1 # k
          BY <3>1
        <4>2. i # 1 => g[i - 1] = f[i - 1]
          BY <4>1
        <4>3. CASE i = k
          <5>1. g[i] = last
            BY <4>3
          <5> QED BY <4>2, <4>3, <5>1
        <4>4. CASE i # k
          <5>1. i \in 1..(k - 1) /\ g[i] = f[i]
            BY <3>1, <4>4
          <5>2. f[i] = IF i = 1 THEN seqs[i] ELSE f[i - 1] \o seqs[i]
            BY <3>2, <5>1 DEF Flat
          <5> QED BY <4>2, <5>1, <5>2
        <4> QED BY <4>3, <4>4
      <3>4. Flat(g, k)
        BY <3>3 DEF Flat
      <3> HIDE DEF g
      <3> QED BY <1>2, <2>1, <3>1, <3>4
    <2> QED BY <2>2, <2>3
  <1>4. n \in 0..n
    OBVIOUS
  <1>5. \E f : Flat(f, n)
    BY <1>2, <1>3, <1>4
  <1> QED BY <1>5 DEF Flat

\* Texts put one behind the other are a text.
LEMMA FlatIsText ==
    ASSUME NEW seqs, IsText(seqs), \A i \in 1..Len(seqs) : IsText(seqs[i])
    PROVE  IsText(FlattenSeq(seqs))
  <1> DEFINE n == Len(seqs)
             D(f) == [i \in 1..n |-> IF i = 1 THEN seqs[i] ELSE f[i - 1] \o seqs[i]]
             f == CHOOSE f : f = D(f)
  <1>1. n \in Nat
    BY TextLength
  <1>2. FlattenSeq(seqs) = IF n = 0 THEN seqs ELSE f[n]
    BY DEF FlattenSeq
  <1>3. f = D(f)
    <2> HIDE DEF n
    <2>1. \E g : g = D(g)
      BY <1>1, FlatExists
    <2> HIDE DEF D
    <2> QED BY <2>1
  <1> HIDE DEF f
  <1>4. \A i \in 1..n : f[i] = IF i = 1 THEN seqs[i] ELSE f[i - 1] \o seqs[i]
    <2> HIDE DEF n
    <2> QED BY <1>3
  <1>5. \A i \in 1..n : IsText(seqs[i])
    OBVIOUS
  <1> HIDE DEF n, D
  <1> DEFINE T == {k \in 1..n : ~ IsText(f[k])}
  <1>6. T \subseteq Nat /\ T \subseteq 1..n /\ \A k \in 1..n : k \notin T <=> IsText(f[k])
    OBVIOUS
  <1> HIDE DEF T
  <1>7. T = {}
    <2> SUFFICES ASSUME T # {} PROVE FALSE
      OBVIOUS
    <2>1. PICK k \in T : \A m \in T : k <= m
      BY <1>6, LeastMember
    <2>2. k \in 1..n /\ IsText(seqs[k]) /\ f[k] = IF k = 1 THEN seqs[k] ELSE f[k - 1] \o seqs[k]
      BY <1>4, <1>5, <1>6, <2>1
    <2>3. CASE k = 1
      BY <1>6, <2>1, <2>2, <2>3
    <2>4. CASE k # 1
      <3>1. k - 1 \in 1..n /\ k - 1 \notin T
        BY <1>1, <2>1, <2>2, <2>4
      <3>2. IsText(f[k - 1])
        BY <1>6, <3>1
      <3>3. IsText(f[k])
        BY <2>2, <2>4, <3>2, Joined
      <3> QED BY <1>6, <2>1, <3>3
    <2> QED BY <2>3, <2>4
  <1>8. n # 0 => n \in 1..n
    BY <1>1
  <1> QED BY <1>2, <1>6, <1>7, <1>8

-----------------------------------------------------------------------------
(* Numbers *)

LEMMA PaddedIsText == ASSUME NEW v, NEW base, NEW n \in Nat PROVE IsText(Padded(v, base, n))
  <1> DEFINE D(i) == Digit((v \div Power(base, n - i)) % base)
             S == {D(i) : i \in 1..n}
  <1>1. Padded(v, base, n) = [i \in 1..n |-> D(i)]
    BY DEF Padded
  <1> HIDE DEF D
  <1>2. [i \in 1..n |-> D(i)] \in Seq(S)
    OBVIOUS
  <1> QED BY <1>1, <1>2 DEF IsText

\* Fifteen digits are always enough, so that there is a smallest number of them.
LEMMA LengthIsLeast ==
    \A v : Length(v) \in 1..15 /\ Fits(v, Length(v)) /\ \A k \in 1..(Length(v) - 1) : ~Fits(v, k)
  <1> SUFFICES ASSUME NEW v
               PROVE  Length(v) \in 1..15 /\ Fits(v, Length(v)) /\ \A k \in 1..(Length(v) - 1) : ~Fits(v, k)
    OBVIOUS
  <1> DEFINE T == {n \in 1..15 : Fits(v, n)}
  <1>1. 15 \in T /\ T \subseteq Nat
    BY DEF Fits
  <1> HIDE DEF T
  <1>2. PICK n \in T : \A m \in T : n <= m
    BY <1>1, LeastMember
  <1>3. n \in 1..15 /\ Fits(v, n)
    BY <1>2 DEF T
  <1>4. \A k \in 1..(n - 1) : ~Fits(v, k)
    <2> SUFFICES ASSUME NEW k \in 1..(n - 1), Fits(v, k) PROVE FALSE
      OBVIOUS
    <2>1. k \in 1..15 /\ ~ (n <= k)
      BY <1>3
    <2> QED BY <1>2, <2>1 DEF T
  <1> QED BY <1>3, <1>4 DEF Length

LEMMA DecimalIsText == \A v : IsText(Decimal(v))
  <1> SUFFICES ASSUME NEW v PROVE IsText(Decimal(v))
    OBVIOUS
  <1>1. Length(v) \in Nat
    BY LengthIsLeast
  <1> QED BY <1>1, PaddedIsText DEF Decimal

LEMMA Short == \A x, y : IsText(<<>>) /\ IsText(<<x>>) /\ IsText(<<x, y>>)
  <1> SUFFICES ASSUME NEW x, NEW y PROVE IsText(<<>>) /\ IsText(<<x>>) /\ IsText(<<x, y>>)
    OBVIOUS
  <1>1. <<>> \in Seq({x, y}) /\ <<x>> \in Seq({x, y}) /\ <<x, y>> \in Seq({x, y})
    OBVIOUS
  <1> QED BY <1>1 DEF IsText

LEMMA SignIsText == \A negative : IsText(Sign(negative))
  BY Short DEF Sign

LEMMA GarbledIsText == \A v : IsText(Garbled(v))
  <1> SUFFICES ASSUME NEW v PROVE IsText(Garbled(v))
    OBVIOUS
  <1> DEFINE d == Decimal(v)
             n == Len(d)
             g == [i \in 1..n |-> IF d[i] = "0" THEN "0" ELSE "?"]
  <1>1. n \in Nat /\ DOMAIN d = 1..n
    BY DecimalIsText, TextLength
  <1>2. Garbled(v) = g
    BY <1>1 DEF Garbled
  <1> HIDE DEF n, d
  <1>3. g \in Seq({"0", "?"})
    BY <1>1
  <1> QED BY <1>2, <1>3 DEF IsText

LEMMA IntIsText ==
    ASSUME NEW a, a.bits \in Nat, a.value \in Int, NEW spec
    PROVE  IsText(IntText(a, spec))
  <1>1. CASE spec # <<>>
    <2>1. a.bits \div 4 \in Nat
      OBVIOUS
    <2>2. IsText(Padded(a.value % Power(2, a.bits), 16, a.bits \div 4))
      BY <2>1, PaddedIsText
    <2>3. IntText(a, spec) = <<"0", "x">> \o Padded(a.value % Power(2, a.bits), 16, a.bits \div 4)
      BY <1>1 DEF IntText
    <2> QED BY <2>2, <2>3, Short, Joined
  <1>2. CASE spec = <<>> /\ a.value >= 0
    <2>1. IntText(a, spec) = Decimal(a.value)
      BY <1>2 DEF IntText
    <2> QED BY <2>1, DecimalIsText
  <1>3. CASE spec = <<>> /\ a.value < 0
    <2> DEFINE least == a.value = -Power(2, a.bits - 1)
    <2>1. IntText(a, spec) = <<"-">> \o (IF least THEN Garbled(-a.value) ELSE Decimal(-a.value))
      BY <1>3 DEF IntText
    <2> HIDE DEF least
    <2>2. IsText(IF least THEN Garbled(-a.value) ELSE Decimal(-a.value))
      BY GarbledIsText, DecimalIsText
    <2> QED BY <2>1, <2>2, Short, Joined
  <1> QED BY <1>1, <1>2, <1>3

LEMMA BytesAreText == ASSUME NEW bytes \in Seq(0..255) PROVE IsText(BytesText(bytes))
  <1> DEFINE n == Len(bytes)
             T(i) == Append(Padded(bytes[i], 16, 2), " ")
             seqs == [i \in 1..n |-> T(i)]
  <1>1. n \in Nat /\ DOMAIN bytes = 1..n
    OBVIOUS
  <1>2. BytesText(bytes) = FlattenSeq(seqs)
    BY <1>1 DEF BytesText
  <1>3. \A i \in 1..n : IsText(T(i))
    BY PaddedIsText, Extended
  <1> HIDE DEF n, T
  <1>4. seqs = [i \in 1..n |-> seqs[i]] /\ \A i \in 1..n : seqs[i] = T(i)
    OBVIOUS
  <1> HIDE DEF seqs
  <1>5. IsText(seqs) /\ Len(seqs) = n
    BY <1>1, <1>4, Listed
  <1> QED BY <1>2, <1>3, <1>4, <1>5, FlatIsText

\* Behind the last place that is not 0 there are only zeros.
LEMMA FractionIsText == ASSUME NEW decimal, NEW n \in Int PROVE IsText(Fraction(decimal, n))
  <1> DEFINE all == Padded(decimal, 10, Places)
             Ends(i) == /\ i = 0 \/ all[i] # "0"
                        /\ \A j \in (i + 1)..Places : all[j] = "0"
             last == CHOOSE i \in 0..Places : Ends(i)
             T == {i \in 0..Places : \A j \in (i + 1)..Places : all[j] = "0"}
  <1>1. Places \in Nat \ {0}
    BY FormatAssumption
  <1>2. IsText(all)
    BY <1>1, PaddedIsText
  <1>3. Fraction(decimal, n) =
            CASE n = 0 -> <<>>
              [] n = Places -> <<".">> \o (IF decimal = 0 THEN all ELSE SubSeq(all, 1, last))
              [] OTHER -> <<".">> \o SubSeq(all, 1, n)
    BY DEF Fraction
  <1> HIDE DEF all
  <1>4. Places \in T /\ T \subseteq Nat /\ T \subseteq 0..Places
    BY <1>1
  <1>5. \A i \in 0..Places : i \in T <=> \A j \in (i + 1)..Places : all[j] = "0"
    OBVIOUS
  <1> HIDE DEF T
  <1>6. PICK i \in T : \A m \in T : i <= m
    BY <1>4, LeastMember
  <1>7. i = 0 \/ all[i] # "0"
    <2> SUFFICES ASSUME i # 0, all[i] = "0" PROVE FALSE
      OBVIOUS
    <2>1. i \in 0..Places /\ i - 1 \in 0..Places
      BY <1>1, <1>4, <1>6
    <2>2. \A j \in ((i - 1) + 1)..Places : j = i \/ j \in (i + 1)..Places
      BY <1>1, <2>1
    <2>3. i - 1 \in T
      BY <1>5, <1>6, <2>1, <2>2
    <2> QED BY <1>6, <2>1, <2>3
  <1>8. i \in 0..Places /\ Ends(i)
    BY <1>4, <1>5, <1>6, <1>7
  <1>9. last \in 0..Places
    BY <1>8
  <1> HIDE DEF last, Ends
  <1>10. IsText(SubSeq(all, 1, last)) /\ IsText(SubSeq(all, 1, n))
    BY <1>1, <1>9, Part
  <1>11. CASE n = 0
    BY <1>1, <1>3, <1>11, Short
  <1>12. CASE n # 0 /\ n = Places
    <2> DEFINE places == IF decimal = 0 THEN all ELSE SubSeq(all, 1, last)
    <2>1. IsText(places)
      BY <1>2, <1>10
    <2>2. Fraction(decimal, n) = <<".">> \o places
      BY <1>3, <1>12
    <2> HIDE DEF places
    <2> QED BY <2>1, <2>2, Short, Joined
  <1>13. CASE n # 0 /\ n # Places
    <2>1. Fraction(decimal, n) = <<".">> \o SubSeq(all, 1, n)
      BY <1>3, <1>13
    <2> QED BY <1>10, <2>1, Short, Joined
  <1> QED BY <1>11, <1>12, <1>13

LEMMA AskedIsNumber == \A spec : Asked(spec) \in Int
  BY FormatAssumption DEF Asked

LEMMA ExponentIsText == \A e : IsText(Exponent(e))
  <1> SUFFICES ASSUME NEW e PROVE IsText(Exponent(e))
    OBVIOUS
  <1> DEFINE sign == Sign(e < 0)
             number == Decimal(IF e < 0 THEN -e ELSE e)
  <1>1. IsText(sign) /\ IsText(number)
    BY SignIsText, DecimalIsText
  <1>2. Exponent(e) = IF e = 0 THEN <<>> ELSE <<"e">> \o sign \o number
    BY DEF Exponent
  <1> HIDE DEF sign, number
  <1>3. IsText(<<"e">> \o sign)
    BY <1>1, Short, Joined
  <1>4. IsText(<<"e">> \o sign \o number)
    BY <1>1, <1>3, Joined
  <1> QED BY <1>2, <1>4, Short

LEMMA FloatIsText == ASSUME NEW a, NEW spec PROVE IsText(FloatText(a, spec))
  <1> DEFINE f == splitFloat(a)
             sign == Sign(a.negative)
             number == Decimal(f.integral)
             fraction == Fraction(f.decimal, Asked(spec))
             exponent == Exponent(f.exponent)
  <1>1. IsText(sign) /\ IsText(number) /\ IsText(fraction) /\ IsText(exponent)
    BY SignIsText, DecimalIsText, FractionIsText, AskedIsNumber, ExponentIsText
  <1>2. FloatText(a, spec) = sign \o number \o fraction \o exponent
    BY DEF FloatText
  <1> HIDE DEF sign, number, fraction, exponent
  <1>3. IsText(sign \o number)
    BY <1>1, Joined
  <1>4. IsText(sign \o number \o fraction)
    BY <1>1, <1>3, Joined
  <1>5. IsText(sign \o number \o fraction \o exponent)
    BY <1>1, <1>4, Joined
  <1> QED BY <1>2, <1>5

\* Whatever the argument and the specification, a text is printed.
LEMMA TextIsText == ASSUME NEW a, IsArgument(a), NEW spec PROVE IsText(Text(a, spec))
  <1>1. CASE a.kind = "int"
    BY <1>1, IntIsText DEF IsArgument, Text
  <1>2. CASE a.kind = "float"
    BY <1>2, FloatIsText DEF IsArgument, Text
  <1>3. CASE a.kind = "bytes"
    BY <1>3, BytesAreText DEF IsArgument, Text
  <1>4. CASE a.kind = "chars"
    BY <1>4, Strings DEF IsArgument, Text
  <1>5. CASE a.kind = "error"
    <2>1. a.bits \in Nat /\ a.value \in Int
      BY <1>5 DEF IsArgument
    <2>2. Text(a, spec) = <<"E", ":">> \o IntText(a, spec)
      BY <1>5 DEF Text
    <2> QED BY <2>1, <2>2, IntIsText, Short, Joined
  <1> QED BY <1>1, <1>2, <1>3, <1>4, <1>5 DEF IsArgument

-----------------------------------------------------------------------------
(* Reading a number *)

LEMMA ReadingExists ==
    ASSUME NEW n \in Nat, NEW v, NEW base
    PROVE  \E f : f = [i \in 0..n |-> IF i = 0 THEN 0 ELSE f[i - 1] * base + v[i]]
  <1> DEFINE Reads(f, k) == f = [i \in 0..k |-> IF i = 0 THEN 0 ELSE f[i - 1] * base + v[i]]
             T == {k \in 0..n : ~ \E f : Reads(f, k)}
  <1> HIDE DEF Reads
  <1>1. T \subseteq Nat /\ T \subseteq 0..n
    OBVIOUS
  <1>2. \A k \in 0..n : k \notin T <=> \E f : Reads(f, k)
    OBVIOUS
  <1> HIDE DEF T
  <1>3. T = {}
    <2> SUFFICES ASSUME T # {} PROVE FALSE
      OBVIOUS
    <2>1. PICK k \in T : \A m \in T : k <= m
      BY <1>1, LeastMember
    <2>2. CASE k = 0
      <3> DEFINE e == [i \in 0..0 |-> 0]
      <3>1. Reads(e, 0)
        BY DEF Reads
      <3> QED BY <1>2, <2>1, <2>2, <3>1
    <2>3. CASE k # 0
      <3>1. k \in 0..n /\ k \in Nat /\ k - 1 \in 0..n /\ k - 1 \notin T
        BY <1>1, <2>1, <2>3
      <3>2. PICK f : Reads(f, k - 1)
        BY <1>2, <3>1
      <3> DEFINE last == f[k - 1] * base + v[k]
                 g == [i \in 0..k |-> IF i = k THEN last ELSE f[i]]
      <3> HIDE DEF last
      <3>3. ASSUME NEW i \in 0..k
            PROVE  g[i] = IF i = 0 THEN 0 ELSE g[i - 1] * base + v[i]
        <4>1. i # 0 => i - 1 \in 0..k /\ i - 1 # k
          BY <3>1
        <4>2. i # 0 => g[i - 1] = f[i - 1]
          BY <4>1
        <4>3. CASE i = k
          <5>1. g[i] = last
            BY <4>3
          <5> HIDE DEF g
          <5>2. g[i - 1] = f[k - 1]
            BY <2>3, <4>2, <4>3
          <5> QED BY <2>3, <4>3, <5>1, <5>2 DEF last
        <4>4. CASE i # k
          <5>1. i \in 0..(k - 1) /\ g[i] = f[i]
            BY <3>1, <4>4
          <5>2. f[i] = IF i = 0 THEN 0 ELSE f[i - 1] * base + v[i]
            BY <3>2, <5>1 DEF Reads
          <5> HIDE DEF g
          <5> QED BY <4>2, <5>1, <5>2
        <4> QED BY <4>3, <4>4
      <3>4. Reads(g, k)
        BY <3>3 DEF Reads
      <3> HIDE DEF g
      <3> QED BY <1>2, <2>1, <3>1, <3>4
    <2> QED BY <2>2, <2>3
  <1>4. n \in 0..n
    OBVIOUS
  <1>5. \E f : Reads(f, n)
    BY <1>2, <1>3, <1>4
  <1> QED BY <1>5 DEF Reads

\* Digits stand for a natural number.
LEMMA DigitsAreNumber ==
    ASSUME NEW text, IsText(text), \A i \in 1..Len(text) : IsDigit(text[i])
    PROVE  ReadDigits(text, 10) \in Nat
  <1> DEFINE n == Len(text)
             V(i) == CHOOSE d \in 0..(10 - 1) : Digit(d) = text[i]
             D(f) == [i \in 0..n |-> IF i = 0 THEN 0 ELSE f[i - 1] * 10 + V(i)]
             f == CHOOSE f : f = D(f)
  <1>1. n \in Nat
    BY TextLength
  <1>2. ReadDigits(text, 10) = f[n]
    BY DEF ReadDigits
  <1>3. \A i \in 1..n : V(i) \in 0..9
    BY DEF IsDigit
  <1>4. f = D(f)
    <2> DEFINE v == [i \in 1..n |-> V(i)]
    <2> HIDE DEF n, V
    <2>1. \A i \in 0..n : i # 0 => v[i] = V(i)
      BY <1>1
    <2> HIDE DEF v
    <2>2. PICK g : g = [i \in 0..n |-> IF i = 0 THEN 0 ELSE g[i - 1] * 10 + v[i]]
      BY <1>1, ReadingExists, ZenonT(30)
    <2>3. g = D(g)
      BY <2>1, <2>2
    <2> HIDE DEF D
    <2> QED BY <2>3
  <1> HIDE DEF f
  <1>5. f[0] = 0 /\ \A i \in 1..n : f[i] = f[i - 1] * 10 + V(i)
    <2> HIDE DEF n, V
    <2>1. 0 \in 0..n /\ \A i \in 1..n : i \in 0..n /\ i # 0
      BY <1>1
    <2> QED BY <1>4, <2>1
  <1> HIDE DEF n, V, D
  <1> DEFINE T == {k \in 0..n : f[k] \notin Nat}
  <1>6. T \subseteq Nat /\ T \subseteq 0..n /\ \A k \in 0..n : k \notin T <=> f[k] \in Nat
    OBVIOUS
  <1> HIDE DEF T
  <1>7. T = {}
    <2> SUFFICES ASSUME T # {} PROVE FALSE
      OBVIOUS
    <2>1. PICK k \in T : \A m \in T : k <= m
      BY <1>6, LeastMember
    <2>2. k # 0
      BY <1>1, <1>5, <1>6, <2>1
    <2>3. k \in 1..n /\ k - 1 \in 0..n /\ k - 1 \notin T
      BY <1>1, <1>6, <2>1, <2>2
    <2>4. f[k - 1] \in Nat /\ V(k) \in Nat /\ f[k] = f[k - 1] * 10 + V(k)
      BY <1>3, <1>5, <1>6, <2>3
    <2>5. f[k] \in Nat
      BY <2>4
    <2> QED BY <1>6, <2>1, <2>5
  <1>8. n \in 0..n
    BY <1>1
  <1> QED BY <1>2, <1>6, <1>7, <1>8

-----------------------------------------------------------------------------
(* The loop of format_to *)

\* The call and its buffer, in which a text that is cut has room.
LEMMA Facts ==
    ASSUME Inv
    PROVE  /\ call.format \in Seq(STRING) /\ Len(call.format) \in Nat
           /\ \A i \in 1..Len(call.args) : IsArgument(call.args[i])
           /\ Len(call.args) \in Nat /\ call.N \in Nat /\ Room(call) \in Nat
           /\ Room(call) + (IF call.autoZero THEN 1 ELSE 0) = call.N
           /\ call.overload \in {"cstr", "sv"} /\ call.autoZero \in BOOLEAN
           /\ pos \in Nat /\ pBegin \in Nat
  <1>1. IsCall(call)
    BY FormatAssumption DEF Inv
  <1>2. \A i \in 1..Len(call.args) : call.args[i] \in ToSet(call.args)
    BY <1>1 DEF IsCall, ToSet
  <1>3. Len(call.format) \in Nat /\ Len(call.args) \in Nat
    BY <1>1 DEF IsCall
  <1>4. /\ Room(call) \in Nat
        /\ Room(call) + (IF call.autoZero THEN 1 ELSE 0) = call.N
    BY <1>1 DEF IsCall, Room
  <1>5. pos \in Nat /\ pBegin \in Nat
    BY <1>3 DEF Inv
  <1> QED BY <1>1, <1>2, <1>3, <1>4, <1>5 DEF IsCall

LEMMA EndIsNoCharacter == End # Close /\ End # ":" /\ End # Open /\ End # "\\" /\ Open # "\\" /\ Close # "\\"
  BY Zenon DEF End, Open, Close

LEMMA PutFits ==
    ASSUME Inv, NEW text, IsText(text), Put(text)
    PROVE  IsText(mem') /\ Len(mem') <= Room(call)
  <1> DEFINE s == mem \o text
             n == IF Len(s) < Room(call) THEN Len(s) ELSE Room(call)
  <1>1. IsText(s) /\ Len(s) \in Nat
    BY Joined, TextLength DEF Inv
  <1>2. n \in Nat /\ n <= Room(call)
    BY <1>1, Facts
  <1>3. mem' = SubSeq(s, 1, n)
    BY DEF Put
  <1> HIDE DEF s, n
  <1>4. IsText(mem') /\ Len(mem') = IF 1 <= n THEN n - 1 + 1 ELSE 0
    BY <1>2, <1>3, Part
  <1> QED BY <1>2, <1>4, Facts

LEMMA PieceIsText ==
    ASSUME NEW from \in Int, NEW to \in Int
    PROVE  IsText(Piece(from, to)) /\ IsText(BeforeEscape(from, to))
  <1>1. to - 1 \in Int /\ to - 1 - 1 \in Int
    OBVIOUS
  <1> QED BY <1>1, Part DEF Piece, BeforeEscape

\* Before the first place whose character is no digit, or the end, there are
\* only digits.
LEMMA NumberEndFound ==
    ASSUME Inv, pos <= Len(call.format)
    PROVE  /\ NumberEnd \in (pos + 1)..(Len(call.format) + 1)
           /\ ~IsDigit(At(NumberEnd)) \/ At(NumberEnd) = End
           /\ \A k \in (pos + 1)..(NumberEnd - 1) : IsDigit(At(k))
  <1> DEFINE n == Len(call.format)
             T == {j \in (pos + 1)..(n + 1) : ~ IsDigit(At(j)) \/ At(j) = End}
  <1>1. n \in Nat /\ pos \in Nat /\ pos <= n
    BY Facts
  <1>2. At(n + 1) = End
    BY <1>1 DEF At
  <1>3. NumberEnd = CHOOSE j \in (pos + 1)..(n + 1) :
                        /\ ~ IsDigit(At(j)) \/ At(j) = End
                        /\ \A k \in (pos + 1)..(j - 1) : ~ ~ IsDigit(At(k))
    BY DEF NumberEnd, First
  <1> HIDE DEF n
  <1>4. n + 1 \in T /\ T \subseteq Nat
    BY <1>1, <1>2
  <1>5. PICK j \in T : \A m \in T : j <= m
    BY <1>4, LeastMember
  <1>6. \A k \in (pos + 1)..(j - 1) : IsDigit(At(k))
    <2> SUFFICES ASSUME NEW k \in (pos + 1)..(j - 1), ~ IsDigit(At(k)) PROVE FALSE
      OBVIOUS
    <2>1. j \in (pos + 1)..(n + 1)
      BY <1>5
    <2>2. k \in (pos + 1)..(n + 1) /\ ~ (j <= k)
      BY <1>1, <2>1
    <2> QED BY <1>5, <2>2
  <1>7. /\ j \in (pos + 1)..(n + 1)
        /\ ~ IsDigit(At(j)) \/ At(j) = End
        /\ \A k \in (pos + 1)..(j - 1) : ~ ~ IsDigit(At(k))
    BY <1>5, <1>6
  <1> HIDE DEF T
  <1>8. /\ NumberEnd \in (pos + 1)..(n + 1)
        /\ ~ IsDigit(At(NumberEnd)) \/ At(NumberEnd) = End
        /\ \A k \in (pos + 1)..(NumberEnd - 1) : ~ ~ IsDigit(At(k))
    BY <1>3, <1>7
  <1> QED BY <1>8 DEF n

\* The specification ends at a closing brace or at the end of the format.
LEMMA SpecEndFound ==
    ASSUME Inv, pos <= Len(call.format)
    PROVE  /\ SpecBegin \in (pos + 1)..(Len(call.format) + 1)
           /\ SpecEnd \in SpecBegin..(Len(call.format) + 1)
           /\ At(SpecEnd) = Close \/ At(SpecEnd) = End
           /\ \A k \in SpecBegin..(SpecEnd - 1) : At(k) # Close
  <1> DEFINE n == Len(call.format)
             T == {j \in SpecBegin..(n + 1) : At(j) = Close \/ At(j) = End}
  <1>1. n \in Nat /\ pos \in Nat /\ NumberEnd \in (pos + 1)..(n + 1)
    BY Facts, NumberEndFound
  <1>2. At(n + 1) = End
    BY <1>1 DEF At
  <1>3. SpecEnd = CHOOSE j \in SpecBegin..(n + 1) :
                      /\ At(j) = Close \/ At(j) = End
                      /\ \A k \in SpecBegin..(j - 1) : ~ (At(k) = Close)
    BY DEF SpecEnd, First
  <1> HIDE DEF n
  <1>4. NumberEnd = n + 1 => At(NumberEnd) # ":"
    BY <1>2, EndIsNoCharacter
  <1>5. SpecBegin \in (pos + 1)..(n + 1)
    BY <1>1, <1>4 DEF SpecBegin
  <1>6. n + 1 \in T /\ T \subseteq Nat
    BY <1>1, <1>2, <1>5
  <1>7. PICK j \in T : \A m \in T : j <= m
    BY <1>6, LeastMember
  <1>8. \A k \in SpecBegin..(j - 1) : ~ (At(k) = Close)
    <2> SUFFICES ASSUME NEW k \in SpecBegin..(j - 1), At(k) = Close PROVE FALSE
      OBVIOUS
    <2>1. j \in SpecBegin..(n + 1)
      BY <1>7
    <2>2. k \in SpecBegin..(n + 1) /\ ~ (j <= k)
      BY <1>1, <1>5, <2>1
    <2> QED BY <1>7, <2>2
  <1>9. /\ j \in SpecBegin..(n + 1)
        /\ At(j) = Close \/ At(j) = End
        /\ \A k \in SpecBegin..(j - 1) : ~ (At(k) = Close)
    BY <1>7, <1>8
  <1> HIDE DEF T
  <1>10. /\ SpecEnd \in SpecBegin..(n + 1)
         /\ At(SpecEnd) = Close \/ At(SpecEnd) = End
         /\ \A k \in SpecBegin..(SpecEnd - 1) : ~ (At(k) = Close)
    BY <1>3, <1>9
  <1> QED BY <1>5, <1>10 DEF n

LEMMA TargetIsNumber ==
    ASSUME Inv, pos <= Len(call.format)
    PROVE  Target \in Nat
  <1> DEFINE n == Len(call.format)
             text == Piece(pos + 1, NumberEnd)
  <1>1. /\ n \in Nat /\ pos \in Nat /\ NumberEnd \in (pos + 1)..(n + 1)
        /\ \A k \in (pos + 1)..(NumberEnd - 1) : IsDigit(At(k))
    BY Facts, NumberEndFound
  <1> HIDE DEF n
  <1>2. pos + 1 \in Int /\ NumberEnd - 1 \in Int /\ NumberEnd \in Int
    BY <1>1
  <1>3. /\ IsText(text)
        /\ Len(text) = IF pos + 1 <= NumberEnd - 1 THEN NumberEnd - 1 - (pos + 1) + 1 ELSE 0
        /\ \A i \in 1..(NumberEnd - 1 - (pos + 1) + 1) : text[i] = call.format[pos + 1 + i - 1]
    BY <1>2, Part DEF Piece
  <1> HIDE DEF text
  <1>4. \A i \in 1..Len(text) : IsDigit(text[i])
    <2> SUFFICES ASSUME NEW i \in 1..Len(text) PROVE IsDigit(text[i])
      OBVIOUS
    <2>1. i \in 1..(NumberEnd - 1 - (pos + 1) + 1)
      BY <1>2, <1>3
    <2> DEFINE k == pos + 1 + i - 1
    <2>2. k \in (pos + 1)..(NumberEnd - 1) /\ k <= n
      BY <1>1, <2>1
    <2>3. text[i] = call.format[k]
      BY <1>3, <2>1
    <2> HIDE DEF k
    <2>4. At(k) = call.format[k]
      BY <2>2 DEF At, n
    <2> QED BY <1>1, <2>2, <2>3, <2>4
  <1>5. ReadDigits(text, 10) \in Nat
    BY <1>3, <1>4, DigitsAreNumber
  <1> QED BY <1>5 DEF Target, Inv, text

-----------------------------------------------------------------------------
LEMMA InitInv == FormatInit => Inv
  <1> SUFFICES ASSUME FormatInit PROVE Inv
    OBVIOUS
  <1>1. IsCall(call)
    BY FormatAssumption DEF FormatInit
  <1>2. Len(call.format) \in Nat /\ Room(call) \in Nat
    BY <1>1 DEF IsCall, Room
  <1>3. IsText(mem) /\ Len(mem) = 0
    BY Short DEF FormatInit
  <1>4. ~ (prev = "\\") /\ ended \in BOOLEAN /\ ~ended
    BY EndIsNoCharacter DEF FormatInit
  <1> QED BY <1>2, <1>3, <1>4 DEF FormatInit, Inv

\* A round of the loop stays within the format, unless sv looks behind a brace
\* that ends it, and what it puts within the buffer.
LEMMA StepInv == Inv /\ EndsInText(call) /\ [FormatNext]_formatVars => Inv'
  <1> SUFFICES ASSUME Inv, EndsInText(call), [FormatNext]_formatVars PROVE Inv'
    OBVIOUS
  <1> DEFINE n == Len(call.format)
  <1>1. n \in Nat /\ pos \in 1..(n + 1) /\ pBegin \in 1..pos /\ call \in Calls
    BY Facts DEF Inv
  <1>2. pos = n + 1 => At(pos) = End
    BY <1>1 DEF At
  <1>3. At(pos) # End => pos <= n
    BY <1>1, <1>2
  <1>4. CASE PlainChar
    BY <1>1, <1>3, <1>4 DEF PlainChar, Inv
  <1>5. CASE EscapedBrace
    <2>1. pos <= n /\ pos \in Int /\ pBegin \in Int
      BY <1>1, <1>3, <1>5, EndIsNoCharacter DEF EscapedBrace
    <2>2. IsText(mem') /\ Len(mem') <= Room(call)
      BY <1>5, <2>1, PutFits, PieceIsText DEF EscapedBrace
    <2> QED BY <1>1, <1>5, <2>1, <2>2, EndIsNoCharacter DEF EscapedBrace, Inv
  <1>6. CASE PlaceholderWithoutArguments
    BY <1>6 DEF PlaceholderWithoutArguments, Fails, Inv
  <1>7. CASE BadPlaceholder
    <2>1. pos \in Int /\ pBegin \in Int
      BY <1>1
    <2>2. IsText(mem') /\ Len(mem') <= Room(call)
      BY <1>7, <2>1, PutFits, PieceIsText DEF BadPlaceholder
    <2>3. arg' \in Nat
      BY <1>7 DEF BadPlaceholder, Inv
    <2> QED BY <1>7, <2>2, <2>3 DEF BadPlaceholder, Fails, Inv
  <1>8. CASE Placeholder
    <2> DEFINE a == call.args[Target + 1]
               before == Piece(pBegin, pos)
               text == Text(a, Piece(SpecBegin, SpecEnd))
    <2>1. /\ pos <= n /\ Target < Len(call.args) /\ At(SpecEnd) = Close
          /\ Put(before \o text) /\ arg' = (IF Explicit THEN arg ELSE arg + 1)
          /\ pBegin' = SpecEnd + 1 /\ pos' = NextPos(call, SpecEnd)
          /\ outcome' = IF pos' > n + 1 THEN "undefined" ELSE "running"
          /\ prev' = At(NextPos(call, SpecEnd) - 1) /\ UNCHANGED <<call, ended>>
      BY <1>3, <1>8, EndIsNoCharacter DEF Placeholder, AtPlaceholder
    <2>2. Target \in Nat /\ SpecBegin \in (pos + 1)..(n + 1) /\ SpecEnd \in SpecBegin..(n + 1)
      BY <2>1, TargetIsNumber, SpecEndFound
    <2>3. IsText(text)
      <3>1. Target + 1 \in 1..Len(call.args)
        BY <2>1, <2>2, Facts
      <3>2. IsArgument(a)
        BY <3>1, Facts
      <3> QED BY <3>2, TextIsText
    <2>4. IsText(before \o text)
      <3>1. IsText(before)
        BY <1>1, PieceIsText
      <3> HIDE DEF before, text
      <3> QED BY <2>3, <3>1, Joined
    <2> HIDE DEF a, before, text
    <2>5. IsText(mem') /\ Len(mem') <= Room(call)
      BY <2>1, <2>4, PutFits
    <2>6. SpecEnd \in 1..n /\ call.format[SpecEnd] = Close
      BY <1>1, <2>1, <2>2, EndIsNoCharacter DEF At
    <2>7. CASE call.overload = "cstr"
      <3>1. NextPos(call, SpecEnd) = SpecEnd + 1
        BY <2>7 DEF NextPos
      <3>2. prev' = Close
        BY <2>1, <2>6, <3>1
      <3> QED BY <1>1, <2>1, <2>5, <2>6, <3>1, <3>2, EndIsNoCharacter DEF Inv
    <2>8. CASE call.overload # "cstr"
      <3>1. NextPos(call, SpecEnd) = SpecEnd + 2
        BY <2>8 DEF NextPos
      <3>2. SpecEnd # n
        BY <1>1, <2>6, <2>8 DEF EndsInText
      <3> QED BY <1>1, <2>1, <2>5, <2>6, <3>1, <3>2, EndIsNoCharacter DEF Inv
    <2> QED BY <2>7, <2>8
  <1>9. CASE Finish
    <2>1. pos \in Int /\ pBegin \in Int
      BY <1>1
    <2>2. IsText(mem') /\ Len(mem') <= Room(call)
      BY <1>9, <2>1, PutFits, PieceIsText DEF Finish
    <2> QED BY <1>9, <2>2, Facts DEF Finish, Inv
  <1>10. CASE UNCHANGED formatVars
    BY <1>10 DEF formatVars, Inv
  <1> QED BY <1>4, <1>5, <1>6, <1>7, <1>8, <1>9, <1>10 DEF FormatNext

LEMMA CallIsFixed == [FormatNext]_formatVars => call' = call
  BY DEF FormatNext, formatVars, PlainChar, EscapedBrace, PlaceholderWithoutArguments, BadPlaceholder,
         Placeholder, Finish, Fails

-----------------------------------------------------------------------------
\* format_to reads no character behind the 0 of a format, and a view's only as
\* far as text follows its last placeholder; what it puts into the buffer, and
\* the 0 behind it, fit into any buffer.
THEOREM FormatterStaysInBounds == FormatSpec => [](EndsInText(call) => StaysInBounds)
  <1> DEFINE I == EndsInText(call) => Inv
  <1>1. FormatInit => I
    BY InitInv
  <1>2. I /\ [FormatNext]_formatVars => I'
    <2> SUFFICES ASSUME I, [FormatNext]_formatVars, EndsInText(call)' PROVE Inv'
      OBVIOUS
    <2>1. EndsInText(call)
      BY CallIsFixed
    <2> QED BY <2>1, StepInv
  <1>3. I => (EndsInText(call) => StaysInBounds)
    <2> SUFFICES ASSUME Inv PROVE StaysInBounds
      OBVIOUS
    <2>1. Len(mem) \in Nat /\ Len(mem) <= Room(call) /\ (ended => call.autoZero)
      BY TextLength DEF Inv
    <2>2. Len(mem) + (IF ended THEN 1 ELSE 0) <= call.N
      BY <2>1, Facts
    <2>3. pos <= Len(call.format) + 1 /\ pBegin <= pos
      BY Facts DEF Inv
    <2> QED BY <2>2, <2>3 DEF Inv, StaysInBounds
  <1> HIDE DEF I
  <1> QED BY <1>1, <1>2, <1>3, PTL DEF FormatSpec

-----------------------------------------------------------------------------
(* What a format stands for *)

\* Texts put one behind the other.
LEMMA Joining ==
    ASSUME NEW s, NEW t, IsText(s), IsText(t)
    PROVE  /\ Len(s \o t) = Len(s) + Len(t)
           /\ \A i \in 1..(Len(s) + Len(t)) : (s \o t)[i] = IF i <= Len(s) THEN s[i] ELSE t[i - Len(s)]
  <1>1. PICK S : s \in Seq(S)
    BY DEF IsText
  <1>2. PICK T : t \in Seq(T)
    BY DEF IsText
  <1>3. s \in Seq(S \cup T) /\ t \in Seq(S \cup T)
    BY <1>1, <1>2, SeqMonotonic
  <1> QED BY <1>3

LEMMA SameText ==
    ASSUME NEW s, NEW t, IsText(s), IsText(t), Len(s) = Len(t),
           \A i \in 1..Len(s) : s[i] = t[i]
    PROVE  s = t
  <1>1. PICK S : s \in Seq(S)
    BY DEF IsText
  <1>2. PICK T : t \in Seq(T)
    BY DEF IsText
  <1>3. s \in Seq(S \cup T) /\ t \in Seq(S \cup T)
    BY <1>1, <1>2, SeqMonotonic
  <1> QED BY <1>3, SeqEqual

LEMMA JoinTwice ==
    ASSUME NEW s, NEW t, NEW u, IsText(s), IsText(t), IsText(u)
    PROVE  (s \o t) \o u = s \o (t \o u)
  <1>1. IsText(s \o t) /\ IsText(t \o u) /\ IsText((s \o t) \o u) /\ IsText(s \o (t \o u))
    BY Joined
  <1>2. /\ Len(s) \in Nat /\ Len(t) \in Nat /\ Len(u) \in Nat
        /\ Len(s \o t) = Len(s) + Len(t) /\ Len(t \o u) = Len(t) + Len(u)
        /\ Len((s \o t) \o u) = Len(s) + Len(t) + Len(u)
        /\ Len(s \o (t \o u)) = Len(s) + (Len(t) + Len(u))
    BY <1>1, TextLength, Joining
  <1>3. ASSUME NEW i \in 1..(Len(s) + Len(t) + Len(u))
        PROVE  ((s \o t) \o u)[i] = (s \o (t \o u))[i]
    <2>1. ((s \o t) \o u)[i] = IF i <= Len(s) + Len(t) THEN (s \o t)[i] ELSE u[i - (Len(s) + Len(t))]
      BY <1>1, <1>2, Joining
    <2>2. (s \o (t \o u))[i] = IF i <= Len(s) THEN s[i] ELSE (t \o u)[i - Len(s)]
      BY <1>1, <1>2, Joining
    <2>3. i <= Len(s) + Len(t) => (s \o t)[i] = IF i <= Len(s) THEN s[i] ELSE t[i - Len(s)]
      BY <1>2, Joining
    <2>4. i > Len(s) => (t \o u)[i - Len(s)] = IF i - Len(s) <= Len(t) THEN t[i - Len(s)] ELSE u[i - Len(s) - Len(t)]
      <3>1. i > Len(s) => i - Len(s) \in 1..(Len(t) + Len(u))
        BY <1>2
      <3> QED BY <3>1, Joining
    <2>5. i - (Len(s) + Len(t)) = i - Len(s) - Len(t)
      BY <1>2
    <2>6. CASE i <= Len(s)
      BY <1>2, <2>1, <2>2, <2>3, <2>6
    <2>7. CASE i > Len(s) /\ i <= Len(s) + Len(t)
      <3>1. i - Len(s) <= Len(t)
        BY <1>2, <2>7
      <3> QED BY <1>2, <2>1, <2>2, <2>3, <2>4, <2>7, <3>1
    <2>8. CASE i > Len(s) + Len(t)
      <3>1. ~ (i - Len(s) <= Len(t)) /\ ~ (i <= Len(s)) /\ i > Len(s) /\ ~ (i <= Len(s) + Len(t))
        BY <1>2, <2>8
      <3> QED BY <2>1, <2>2, <2>4, <2>5, <3>1
    <2> QED BY <1>2, <2>6, <2>7, <2>8
  <1>4. Len((s \o t) \o u) = Len(s \o (t \o u))
    BY <1>2
  <1> QED BY <1>1, <1>2, <1>3, <1>4, SameText

LEMMA JoinEmpty == ASSUME NEW s, IsText(s) PROVE s \o <<>> = s /\ <<>> \o s = s
  <1>1. PICK S : s \in Seq(S)
    BY DEF IsText
  <1> QED BY <1>1

\* As much of a text as there is room for.
Clip(s, n) == SubSeq(s, 1, IF Len(s) < n THEN Len(s) ELSE n)

LEMMA ClipFacts ==
    ASSUME NEW s, IsText(s), NEW n \in Nat
    PROVE  /\ IsText(Clip(s, n))
           /\ Len(Clip(s, n)) = IF Len(s) < n THEN Len(s) ELSE n
           /\ \A i \in 1..Len(Clip(s, n)) : Clip(s, n)[i] = s[i]
  <1> DEFINE k == IF Len(s) < n THEN Len(s) ELSE n
  <1>1. Len(s) \in Nat /\ k \in Nat
    BY TextLength
  <1> HIDE DEF k
  <1>2. /\ IsText(SubSeq(s, 1, k))
        /\ Len(SubSeq(s, 1, k)) = IF 1 <= k THEN k - 1 + 1 ELSE 0
        /\ \A i \in 1..(k - 1 + 1) : SubSeq(s, 1, k)[i] = s[1 + i - 1]
    BY <1>1, Part
  <1>3. Len(SubSeq(s, 1, k)) = k /\ \A i \in 1..k : SubSeq(s, 1, k)[i] = s[i]
    BY <1>1, <1>2
  <1> QED BY <1>2, <1>3 DEF Clip, k

\* What is clipped and added to is clipped as if it had been whole.
LEMMA ClipAdded ==
    ASSUME NEW s, NEW t, IsText(s), IsText(t), NEW n \in Nat
    PROVE  Clip(Clip(s, n) \o t, n) = Clip(s \o t, n)
  <1> DEFINE c == Clip(s, n)
  <1>1. /\ IsText(c) /\ Len(c) = (IF Len(s) < n THEN Len(s) ELSE n)
        /\ \A i \in 1..Len(c) : c[i] = s[i]
    BY ClipFacts
  <1> HIDE DEF c
  <1>2. Len(s) \in Nat /\ Len(t) \in Nat /\ Len(c) \in Nat
    BY <1>1, TextLength
  <1>3. IsText(c \o t) /\ IsText(s \o t)
    BY <1>1, Joined
  <1>4. /\ Len(c \o t) = Len(c) + Len(t) /\ Len(s \o t) = Len(s) + Len(t)
        /\ \A i \in 1..(Len(c) + Len(t)) : (c \o t)[i] = IF i <= Len(c) THEN c[i] ELSE t[i - Len(c)]
        /\ \A i \in 1..(Len(s) + Len(t)) : (s \o t)[i] = IF i <= Len(s) THEN s[i] ELSE t[i - Len(s)]
    BY <1>1, Joining
  <1> DEFINE a == Clip(c \o t, n)
             b == Clip(s \o t, n)
  <1>5. /\ IsText(a) /\ Len(a) = (IF Len(c \o t) < n THEN Len(c \o t) ELSE n)
        /\ \A i \in 1..Len(a) : a[i] = (c \o t)[i]
    BY <1>3, ClipFacts
  <1>6. /\ IsText(b) /\ Len(b) = (IF Len(s \o t) < n THEN Len(s \o t) ELSE n)
        /\ \A i \in 1..Len(b) : b[i] = (s \o t)[i]
    BY <1>3, ClipFacts
  <1> HIDE DEF a, b
  <1>7. Len(a) = Len(b) /\ Len(a) <= n /\ Len(a) <= Len(c) + Len(t) /\ Len(b) <= Len(s) + Len(t) /\ Len(a) \in Nat
    BY <1>1, <1>2, <1>4, <1>5, <1>6
  <1>8. ASSUME NEW i \in 1..Len(a) PROVE a[i] = b[i]
    <2>1. i \in 1..(Len(c) + Len(t)) /\ i \in 1..(Len(s) + Len(t)) /\ i \in 1..Len(b) /\ i <= n
      BY <1>2, <1>7
    <2>2. CASE i <= Len(c)
      <3>1. i <= Len(s) /\ i \in 1..Len(c)
        BY <1>1, <1>2, <2>1, <2>2
      <3> QED BY <1>1, <1>4, <1>5, <1>6, <2>1, <2>2, <3>1
    <2>3. CASE ~ (i <= Len(c))
      <3>1. Len(c) = Len(s)
        BY <1>1, <1>2, <2>1, <2>3
      <3> QED BY <1>4, <1>5, <1>6, <2>1, <2>3, <3>1
    <2> QED BY <2>2, <2>3
  <1>9. a = b
    BY <1>5, <1>6, <1>7, <1>8, SameText
  <1> QED BY <1>9 DEF a, b, c

\* What is clipped begins the text.
LEMMA ClipBegins ==
    ASSUME NEW s, IsText(s), NEW n \in Nat
    PROVE  /\ IsPrefix(Clip(s, n), s)
           /\ Len(Clip(s, n)) = Len(s) \/ Len(Clip(s, n)) = n
  <1> DEFINE c == Clip(s, n)
             k == Len(c)
  <1>1. /\ IsText(c) /\ k = (IF Len(s) < n THEN Len(s) ELSE n)
        /\ \A i \in 1..k : c[i] = s[i]
    BY ClipFacts
  <1>2. Len(s) \in Nat /\ k \in Nat /\ k <= Len(s)
    BY <1>1, TextLength
  <1> HIDE DEF c, k
  <1>3. /\ IsText(SubSeq(c, 1, k)) /\ IsText(SubSeq(s, 1, k))
        /\ Len(SubSeq(c, 1, k)) = Len(SubSeq(s, 1, k))
        /\ Len(SubSeq(c, 1, k)) = IF 1 <= k THEN k - 1 + 1 ELSE 0
        /\ \A i \in 1..(k - 1 + 1) : SubSeq(c, 1, k)[i] = c[1 + i - 1] /\ SubSeq(s, 1, k)[i] = s[1 + i - 1]
    BY <1>2, Part
  <1>4. ASSUME NEW i \in 1..Len(SubSeq(c, 1, k)) PROVE SubSeq(c, 1, k)[i] = SubSeq(s, 1, k)[i]
    <2>1. i \in 1..k /\ i \in 1..(k - 1 + 1) /\ 1 + i - 1 = i
      BY <1>2, <1>3
    <2> QED BY <1>1, <1>3, <2>1
  <1>5. SubSeq(c, 1, k) = SubSeq(s, 1, k)
    BY <1>3, <1>4, SameText
  <1> QED BY <1>1, <1>2, <1>5 DEF IsPrefix, c, k

LEMMA PieceOfFormat ==
    ASSUME NEW f \in Seq(STRING), NEW p \in 1..(Len(f) + 1), NEW q \in p..(Len(f) + 1)
    PROVE  /\ IsText(SubSeq(f, p, q - 1)) /\ Len(SubSeq(f, p, q - 1)) = q - p
           /\ \A i \in 1..(q - p) : SubSeq(f, p, q - 1)[i] = f[p + i - 1]
  <1>1. Len(f) \in Nat /\ p \in Int /\ q - 1 \in Int
    OBVIOUS
  <1>2. /\ IsText(SubSeq(f, p, q - 1))
        /\ Len(SubSeq(f, p, q - 1)) = IF p <= q - 1 THEN q - 1 - p + 1 ELSE 0
        /\ \A i \in 1..(q - 1 - p + 1) : SubSeq(f, p, q - 1)[i] = f[p + i - 1]
    BY <1>1, Part
  <1>3. q - 1 - p + 1 = q - p /\ (~(p <= q - 1) => q - p = 0)
    BY <1>1
  <1> QED BY <1>2, <1>3

LEMMA PiecesJoin ==
    ASSUME NEW f \in Seq(STRING), NEW p \in 1..(Len(f) + 1), NEW q \in p..(Len(f) + 1),
           NEW r \in q..(Len(f) + 1)
    PROVE  SubSeq(f, p, q - 1) \o SubSeq(f, q, r - 1) = SubSeq(f, p, r - 1)
  <1> DEFINE s == SubSeq(f, p, q - 1)
             t == SubSeq(f, q, r - 1)
             u == SubSeq(f, p, r - 1)
  <1>1. Len(f) \in Nat /\ q \in 1..(Len(f) + 1) /\ r \in p..(Len(f) + 1)
    OBVIOUS
  <1>2. /\ IsText(s) /\ Len(s) = q - p /\ \A i \in 1..(q - p) : s[i] = f[p + i - 1]
        /\ IsText(t) /\ Len(t) = r - q /\ \A i \in 1..(r - q) : t[i] = f[q + i - 1]
        /\ IsText(u) /\ Len(u) = r - p /\ \A i \in 1..(r - p) : u[i] = f[p + i - 1]
    BY <1>1, PieceOfFormat
  <1> HIDE DEF s, t, u
  <1>3. /\ IsText(s \o t) /\ Len(s \o t) = Len(s) + Len(t)
        /\ \A i \in 1..(Len(s) + Len(t)) : (s \o t)[i] = IF i <= Len(s) THEN s[i] ELSE t[i - Len(s)]
    BY <1>2, Joined, Joining
  <1>4. Len(s) + Len(t) = r - p
    BY <1>1, <1>2
  <1>5. ASSUME NEW i \in 1..(r - p) PROVE (s \o t)[i] = u[i]
    <2>1. CASE i <= q - p
      <3>1. i \in 1..(q - p)
        BY <1>1, <2>1
      <3> QED BY <1>2, <1>3, <1>4, <2>1, <3>1
    <2>2. CASE ~ (i <= q - p)
      <3>1. i - (q - p) \in 1..(r - q) /\ q + (i - (q - p)) - 1 = p + i - 1
        BY <1>1, <2>2
      <3>2. t[i - (q - p)] = f[p + i - 1]
        BY <1>2, <3>1
      <3> QED BY <1>2, <1>3, <1>4, <2>2, <3>2
    <2> QED BY <2>1, <2>2
  <1>6. s \o t = u
    BY <1>2, <1>3, <1>4, <1>5, SameText
  <1> QED BY <1>6 DEF s, t, u

LEMMA OneCharacter ==
    ASSUME NEW f \in Seq(STRING), NEW p \in 1..Len(f)
    PROVE  SubSeq(f, p, p) = <<f[p]>>
  <1> DEFINE s == SubSeq(f, p, p)
             t == <<f[p]>>
  <1>1. Len(f) \in Nat /\ p \in Int /\ p - p + 1 = 1 /\ p <= p /\ p + 1 - 1 = p
    OBVIOUS
  <1>2. /\ IsText(s) /\ Len(s) = IF p <= p THEN p - p + 1 ELSE 0
        /\ \A i \in 1..(p - p + 1) : s[i] = f[p + i - 1]
    BY <1>1, Part
  <1>3. IsText(t) /\ Len(t) = 1 /\ t[1] = f[p]
    BY Short
  <1> HIDE DEF s, t
  <1>4. Len(s) = 1 /\ s[1] = f[p]
    BY <1>1, <1>2
  <1>5. \A i \in 1..Len(s) : s[i] = t[i]
    BY <1>3, <1>4
  <1>6. s = t
    BY <1>2, <1>3, <1>4, <1>5, SameText
  <1> QED BY <1>6 DEF s, t

LEMMA NoCharacter ==
    ASSUME NEW f \in Seq(STRING), NEW p \in 1..(Len(f) + 1)
    PROVE  SubSeq(f, p, p - 1) = <<>>
  OBVIOUS

-----------------------------------------------------------------------------
\* The braces and digits of a placeholder.
LEMMA CloseFound ==
    ASSUME NEW f \in Seq(STRING), NEW p \in 1..Len(f)
    PROVE  /\ CloseOf(f, p) \in (p + 1)..(Len(f) + 1)
           /\ CloseOf(f, p) <= Len(f) => f[CloseOf(f, p)] = Close
           /\ \A k \in (p + 1)..(CloseOf(f, p) - 1) : f[k] # Close
  <1> DEFINE n == Len(f)
             Is(j) == /\ j <= n => f[j] = Close
                      /\ \A k \in (p + 1)..(j - 1) : f[k] # Close
             T == {j \in (p + 1)..(n + 1) : j <= n => f[j] = Close}
  <1>1. n \in Nat /\ p \in 1..n
    OBVIOUS
  <1>2. CloseOf(f, p) = CHOOSE j \in (p + 1)..(n + 1) : Is(j)
    BY DEF CloseOf
  <1> HIDE DEF n
  <1>3. n + 1 \in T /\ T \subseteq Nat
    BY <1>1
  <1>4. PICK j \in T : \A m \in T : j <= m
    BY <1>3, LeastMember
  <1>5. \A k \in (p + 1)..(j - 1) : f[k] # Close
    <2> SUFFICES ASSUME NEW k \in (p + 1)..(j - 1), f[k] = Close PROVE FALSE
      OBVIOUS
    <2>1. j \in (p + 1)..(n + 1)
      BY <1>4
    <2>2. k \in (p + 1)..(n + 1) /\ ~ (j <= k)
      BY <1>1, <2>1
    <2> QED BY <1>4, <2>2
  <1>6. j \in (p + 1)..(n + 1) /\ Is(j)
    BY <1>4, <1>5
  <1> HIDE DEF T
  <1>7. CloseOf(f, p) \in (p + 1)..(n + 1) /\ Is(CloseOf(f, p))
    <2> HIDE DEF Is
    <2> QED BY <1>2, <1>6
  <1> QED BY <1>7 DEF n

LEMMA DigitsEndFound ==
    ASSUME NEW f \in Seq(STRING), NEW p \in 1..Len(f)
    PROVE  /\ DigitsEnd(f, p) \in (p + 1)..CloseOf(f, p)
           /\ DigitsEnd(f, p) < CloseOf(f, p) => ~IsDigit(f[DigitsEnd(f, p)])
           /\ \A k \in (p + 1)..(DigitsEnd(f, p) - 1) : IsDigit(f[k])
  <1> DEFINE c == CloseOf(f, p)
             Is(e) == /\ e < c => ~IsDigit(f[e])
                      /\ \A k \in (p + 1)..(e - 1) : IsDigit(f[k])
             T == {e \in (p + 1)..c : e < c => ~IsDigit(f[e])}
  <1>1. p \in Nat /\ c \in (p + 1)..(Len(f) + 1) /\ Len(f) \in Nat
    BY CloseFound
  <1>2. DigitsEnd(f, p) = CHOOSE e \in (p + 1)..c : Is(e)
    BY DEF DigitsEnd
  <1> HIDE DEF c
  <1>3. c \in T /\ T \subseteq Nat
    BY <1>1
  <1>4. PICK e \in T : \A m \in T : e <= m
    BY <1>3, LeastMember
  <1>5. \A k \in (p + 1)..(e - 1) : IsDigit(f[k])
    <2> SUFFICES ASSUME NEW k \in (p + 1)..(e - 1), ~IsDigit(f[k]) PROVE FALSE
      OBVIOUS
    <2>1. e \in (p + 1)..c
      BY <1>4
    <2>2. k \in (p + 1)..c /\ ~ (e <= k)
      BY <1>1, <2>1
    <2> QED BY <1>4, <2>2
  <1>6. e \in (p + 1)..c /\ Is(e)
    BY <1>4, <1>5
  <1> HIDE DEF T
  <1>7. DigitsEnd(f, p) \in (p + 1)..c /\ Is(DigitsEnd(f, p))
    <2> HIDE DEF Is
    <2> QED BY <1>2, <1>6
  <1> QED BY <1>7 DEF c

\* The digits of a placeholder name an argument.
LEMMA WhichIsNumber ==
    ASSUME NEW f \in Seq(STRING), NEW p \in 1..Len(f)
    PROVE  ReadDigits(SubSeq(f, p + 1, DigitsEnd(f, p) - 1), 10) \in Nat
  <1> DEFINE e == DigitsEnd(f, p)
             s == SubSeq(f, p + 1, e - 1)
  <1>1. /\ p + 1 \in 1..(Len(f) + 1) /\ e \in (p + 1)..(Len(f) + 1)
        /\ \A k \in (p + 1)..(e - 1) : IsDigit(f[k])
    BY CloseFound, DigitsEndFound
  <1> HIDE DEF e
  <1>2. IsText(s) /\ Len(s) = e - (p + 1) /\ \A i \in 1..(e - (p + 1)) : s[i] = f[p + 1 + i - 1]
    BY <1>1, PieceOfFormat
  <1> HIDE DEF s
  <1>3. ASSUME NEW i \in 1..Len(s) PROVE IsDigit(s[i])
    <2>1. i \in 1..(e - (p + 1)) /\ p + 1 + i - 1 \in (p + 1)..(e - 1)
      BY <1>1, <1>2
    <2> QED BY <1>1, <1>2, <2>1
  <1>4. ReadDigits(s, 10) \in Nat
    BY <1>2, <1>3, DigitsAreNumber
  <1> QED BY <1>4 DEF s, e

\* What stands at a place has a text, and the next place is further on.
IsMeaning(m) == m.ok \in BOOLEAN /\ IsText(m.text) /\ m.length \in Nat

LEMMA NoMeaning ==
    /\ IsMeaning(Malformed) /\ Malformed.ok = FALSE
    /\ IsMeaning(Empty) /\ Empty = [ok |-> TRUE, text |-> <<>>, length |-> 0]
  <1> DEFINE none == <<>>
  <1>1. IsText(none)
    BY Short
  <1>2. Malformed = [ok |-> FALSE, text |-> none, length |-> 0] /\ Empty = [ok |-> TRUE, text |-> none, length |-> 0]
    BY DEF Malformed, Empty
  <1> HIDE DEF none
  <1>3. IsMeaning(Malformed) /\ IsMeaning(Empty) /\ Malformed.ok = FALSE
    BY <1>1, <1>2 DEF IsMeaning
  <1> QED BY <1>2, <1>3 DEF none

LEMMA CallFacts ==
    ASSUME NEW c \in Calls
    PROVE  /\ c.format \in Seq(STRING) /\ Len(c.format) \in Nat
           /\ \A i \in 1..Len(c.format) : c.format[i] # End
           /\ Len(c.args) \in Nat /\ \A i \in 1..Len(c.args) : IsArgument(c.args[i])
           /\ Room(c) \in Nat
  <1>1. IsCall(c)
    BY FormatAssumption
  <1>2. \A i \in 1..Len(c.args) : c.args[i] \in ToSet(c.args)
    BY <1>1 DEF IsCall, ToSet
  <1>3. Len(c.format) \in Nat /\ Len(c.args) \in Nat /\ Room(c) \in Nat
    BY <1>1 DEF IsCall, Room
  <1>4. \A i \in 1..Len(c.format) : c.format[i] # End
    BY <1>1 DEF IsCall
  <1>5. c.format \in Seq(STRING)
    <2>1. STRING \ {End} \subseteq STRING
      OBVIOUS
    <2> QED BY <1>1, <2>1, SeqMonotonic DEF IsCall
  <1> QED BY <1>1, <1>2, <1>3, <1>4, <1>5 DEF IsCall

LEMMA PlaceholderFacts ==
    ASSUME NEW c \in Calls, NEW p \in 1..Len(c.format), NEW n \in Nat
    PROVE  /\ IsMeaning(PlaceholderAt(c, p, n))
           /\ PlaceholderAt(c, p, n).ok =>
                  /\ PlaceholderAt(c, p, n).next \in (p + 1)..(Len(c.format) + 1)
                  /\ PlaceholderAt(c, p, n).arg \in Nat
  <1> DEFINE close == CloseOf(c.format, p)
             e == DigitsEnd(c.format, p)
             which == IF e = p + 1 THEN n ELSE ReadDigits(SubSeq(c.format, p + 1, e - 1), 10)
             colon == e < close /\ c.format[e] = ":"
             spec == SubSeq(c.format, IF colon THEN e + 1 ELSE e, close - 1)
             a == c.args[which + 1]
             text == Text(a, spec)
             bad == close > Len(c.format) \/ which >= Len(c.args)
             P(b, t) == [ok |-> TRUE, text |-> t, length |-> Reported(b, t),
                         next |-> close + 1, arg |-> IF e = p + 1 THEN n + 1 ELSE n]
  <1>1. PlaceholderAt(c, p, n) = IF bad THEN Malformed ELSE P(a, text)
    BY DEF PlaceholderAt
  <1>2. close \in (p + 1)..(Len(c.format) + 1) /\ which \in Nat /\ Len(c.format) \in Nat
    BY CallFacts, CloseFound, WhichIsNumber
  <1>3. CASE bad
    <2> HIDE DEF bad
    <2>1. PlaceholderAt(c, p, n) = Malformed
      BY <1>1, <1>3
    <2> QED BY <2>1, NoMeaning
  <1>4. CASE ~bad
    <2>1. which + 1 \in 1..Len(c.args)
      BY <1>2, <1>4, CallFacts, SMTT(30)
    <2> HIDE DEF which
    <2>2. IsArgument(a)
      BY <2>1, CallFacts
    <2> HIDE DEF a, spec
    <2>3. IsText(text)
      BY <2>2, TextIsText
    <2> HIDE DEF text
    <2>4. Reported(a, text) \in Nat
      BY <2>3, TextLength DEF Reported
    <2>5. close + 1 \in (p + 1)..(Len(c.format) + 1)
      BY <1>2, <1>4
    <2> HIDE DEF bad, close, e
    <2> QED BY <1>1, <1>4, <2>3, <2>4, <2>5 DEF IsMeaning
  <1> QED BY <1>3, <1>4

LEMMA StandingFacts ==
    ASSUME NEW c \in Calls, NEW p \in 1..Len(c.format), NEW n \in Nat
    PROVE  /\ IsMeaning(Standing(c, p, n))
           /\ Standing(c, p, n).ok =>
                  /\ Standing(c, p, n).next \in (p + 1)..(Len(c.format) + 1)
                  /\ Standing(c, p, n).arg \in Nat
  <1> DEFINE f == c.format
             escape == f[p] = "\\" /\ p < Len(f) /\ f[p + 1] = Open
             Char(x, next) == [ok |-> TRUE, text |-> <<x>>, length |-> 1, next |-> next, arg |-> n]
  <1>1. Standing(c, p, n) = CASE escape -> Char(Open, p + 2)
                              [] f[p] = Open -> PlaceholderAt(c, p, n)
                              [] OTHER -> Char(f[p], p + 1)
    BY DEF Standing
  <1>2. Len(f) \in Nat
    BY CallFacts
  <1>3. \A x, next : next \in (p + 1)..(Len(f) + 1) =>
            IsMeaning(Char(x, next)) /\ Char(x, next).next \in (p + 1)..(Len(f) + 1) /\ Char(x, next).arg \in Nat
    BY Short DEF IsMeaning
  <1>4. escape => f[p] # Open
    BY EndIsNoCharacter
  <1>5. CASE escape
    <2>1. p + 2 \in (p + 1)..(Len(f) + 1)
      BY <1>2, <1>5
    <2> HIDE DEF f, Char, escape
    <2>2. Standing(c, p, n) = Char(Open, p + 2)
      BY <1>1, <1>4, <1>5
    <2> QED BY <1>3, <2>1, <2>2 DEF f
  <1>6. CASE f[p] = Open
    <2> HIDE DEF f, Char, escape
    <2>1. Standing(c, p, n) = PlaceholderAt(c, p, n)
      BY <1>1, <1>4, <1>6
    <2> QED BY <2>1, PlaceholderFacts
  <1>7. CASE ~escape /\ f[p] # Open
    <2>1. p + 1 \in (p + 1)..(Len(f) + 1)
      BY <1>2
    <2> HIDE DEF f, Char, escape
    <2>2. Standing(c, p, n) = Char(f[p], p + 1)
      BY <1>1, <1>7
    <2> QED BY <1>3, <2>1, <2>2 DEF f
  <1> QED BY <1>5, <1>6, <1>7

\* The meanings at a place, when m has those of the places behind it.
MeaningsAt(c, m, p) ==
    [n \in Nat |->
        IF p > Len(c.format) THEN Empty
        ELSE IF ~Standing(c, p, n).ok THEN Malformed
        ELSE Followed(Standing(c, p, n), m[Standing(c, p, n).next][Standing(c, p, n).arg])]

MeaningsFrom(c, m, k) == m = [p \in k..(Len(c.format) + 1) |-> MeaningsAt(c, m, p)]

\* They depend on nothing else.
LEMMA MeaningsAgree ==
    ASSUME NEW c \in Calls, NEW p \in 1..(Len(c.format) + 1), NEW f, NEW g,
           \A q \in (p + 1)..(Len(c.format) + 1) : f[q] = g[q]
    PROVE  MeaningsAt(c, f, p) = MeaningsAt(c, g, p)
  <1> DEFINE L == Len(c.format)
             At1(m, n) == IF p > L THEN Empty
                          ELSE IF ~Standing(c, p, n).ok THEN Malformed
                          ELSE Followed(Standing(c, p, n), m[Standing(c, p, n).next][Standing(c, p, n).arg])
  <1>1. ASSUME NEW n \in Nat PROVE At1(f, n) = At1(g, n)
    <2>1. CASE p > L
      BY <2>1
    <2>2. CASE ~ (p > L) /\ Standing(c, p, n).ok
      <3>1. p \in 1..L
        BY <2>2, CallFacts
      <3>2. Standing(c, p, n).next \in (p + 1)..(L + 1)
        BY <2>2, <3>1, StandingFacts
      <3>3. f[Standing(c, p, n).next] = g[Standing(c, p, n).next]
        BY <3>2
      <3> QED BY <2>2, <3>3
    <2>3. CASE ~ (p > L) /\ ~Standing(c, p, n).ok
      BY <2>3
    <2> QED BY <2>1, <2>2, <2>3
  <1>2. MeaningsAt(c, f, p) = [n \in Nat |-> At1(f, n)] /\ MeaningsAt(c, g, p) = [n \in Nat |-> At1(g, n)]
    BY DEF MeaningsAt
  <1> HIDE DEF At1
  <1> QED BY <1>1, <1>2

LEMMA MeaningsExist ==
    ASSUME NEW c \in Calls
    PROVE  \E m : MeaningsFrom(c, m, 1)
  <1> DEFINE L == Len(c.format)
             T == {j \in 0..L : ~ \E m : MeaningsFrom(c, m, L + 1 - j)}
  <1>1. L \in Nat
    BY CallFacts
  <1>2. T \subseteq Nat /\ T \subseteq 0..L
    BY <1>1
  <1>3. \A j \in 0..L : j \notin T <=> \E m : MeaningsFrom(c, m, L + 1 - j)
    OBVIOUS
  <1> HIDE DEF T
  <1>4. ASSUME NEW k \in 1..(L + 1), NEW f, k <= L => MeaningsFrom(c, f, k + 1)
        PROVE  \E m : MeaningsFrom(c, m, k)
    <2> DEFINE g == [p \in k..(L + 1) |-> IF p = k THEN MeaningsAt(c, f, k) ELSE f[p]]
    <2>1. ASSUME NEW p \in k..(L + 1) PROVE g[p] = MeaningsAt(c, g, p)
      <3>1. p \in 1..(L + 1) /\ \A q \in (p + 1)..(L + 1) : q \in k..(L + 1) /\ q # k
        BY <1>1
      <3>2. \A q \in (p + 1)..(L + 1) : f[q] = g[q]
        BY <3>1
      <3>3. g[p] = IF p = k THEN MeaningsAt(c, f, k) ELSE f[p]
        OBVIOUS
      <3> HIDE DEF g
      <3>4. MeaningsAt(c, f, p) = MeaningsAt(c, g, p)
        BY <3>1, <3>2, MeaningsAgree
      <3>5. p # k => f[p] = MeaningsAt(c, f, p)
        <4> SUFFICES ASSUME p # k PROVE f[p] = MeaningsAt(c, f, p)
          OBVIOUS
        <4>1. p \in (k + 1)..(L + 1) /\ k <= L
          BY <1>1
        <4>2. f = [q \in (k + 1)..(L + 1) |-> MeaningsAt(c, f, q)]
          BY <1>4, <4>1 DEF MeaningsFrom
        <4> QED BY <4>1, <4>2
      <3> QED BY <3>3, <3>4, <3>5
    <2>2. g = [p \in k..(L + 1) |-> MeaningsAt(c, g, p)]
      <3>1. g = [p \in k..(L + 1) |-> g[p]]
        OBVIOUS
      <3> HIDE DEF g
      <3> QED BY <2>1, <3>1
    <2> HIDE DEF g
    <2> QED BY <2>2 DEF MeaningsFrom
  <1>5. T = {}
    <2> SUFFICES ASSUME T # {} PROVE FALSE
      OBVIOUS
    <2>1. PICK j \in T : \A m \in T : j <= m
      BY <1>2, LeastMember
    <2> DEFINE k == L + 1 - j
    <2>2. j \in 0..L /\ k \in 1..(L + 1)
      BY <1>1, <1>2
    <2>3. CASE j = 0
      <3>1. ~ (k <= L)
        BY <1>1, <2>3
      <3>2. \E m : MeaningsFrom(c, m, k)
        BY <1>4, <2>2, <3>1
      <3> QED BY <1>3, <2>2, <3>2
    <2>4. CASE j # 0
      <3>1. j - 1 \in 0..L /\ ~ (j <= j - 1)
        BY <1>1, <2>2, <2>4
      <3>2. j - 1 \notin T
        BY <2>1, <3>1
      <3>3. L + 1 - (j - 1) = k + 1
        BY <1>1, <2>2
      <3>4. PICK f : MeaningsFrom(c, f, k + 1)
        BY <1>3, <3>1, <3>2, <3>3
      <3>5. \E m : MeaningsFrom(c, m, k)
        BY <1>4, <2>2, <3>4
      <3> QED BY <1>3, <2>2, <3>5
    <2> QED BY <2>3, <2>4
  <1>6. L \in 0..L /\ L + 1 - L = 1
    BY <1>1
  <1> QED BY <1>3, <1>5, <1>6

LEMMA MeaningsUnfold ==
    ASSUME NEW c \in Calls
    PROVE  /\ \A n \in Nat : Meanings(c)[Len(c.format) + 1][n] = Empty
           /\ \A p \in 1..Len(c.format), n \in Nat :
                  Meanings(c)[p][n] =
                      IF ~Standing(c, p, n).ok THEN Malformed
                      ELSE Followed(Standing(c, p, n),
                                    Meanings(c)[Standing(c, p, n).next][Standing(c, p, n).arg])
  <1> DEFINE L == Len(c.format)
             M == Meanings(c)
  <1>1. M = CHOOSE m : MeaningsFrom(c, m, 1)
    BY DEF Meanings, MeaningsFrom, MeaningsAt
  <1>2. \E m : MeaningsFrom(c, m, 1)
    BY MeaningsExist
  <1> HIDE DEF M
  <1>3. MeaningsFrom(c, M, 1)
    BY <1>1, <1>2
  <1>4. L \in Nat
    BY CallFacts
  <1>5. \A p \in 1..(L + 1) : M[p] = MeaningsAt(c, M, p)
    <2>1. M = [p \in 1..(L + 1) |-> MeaningsAt(c, M, p)]
      BY <1>3 DEF MeaningsFrom
    <2> QED BY <2>1
  <1>6. ASSUME NEW n \in Nat PROVE M[L + 1][n] = Empty
    <2>1. L + 1 \in 1..(L + 1) /\ L + 1 > L
      BY <1>4
    <2>2. MeaningsAt(c, M, L + 1)[n] = Empty
      BY <2>1 DEF MeaningsAt
    <2> QED BY <1>5, <2>1, <2>2
  <1>7. ASSUME NEW p \in 1..L, NEW n \in Nat
        PROVE  M[p][n] = IF ~Standing(c, p, n).ok THEN Malformed
                         ELSE Followed(Standing(c, p, n), M[Standing(c, p, n).next][Standing(c, p, n).arg])
    <2>1. p \in 1..(L + 1) /\ ~ (p > L)
      BY <1>4
    <2>2. MeaningsAt(c, M, p)[n] =
              IF ~Standing(c, p, n).ok THEN Malformed
              ELSE Followed(Standing(c, p, n), M[Standing(c, p, n).next][Standing(c, p, n).arg])
      BY <2>1 DEF MeaningsAt
    <2> QED BY <1>5, <2>1, <2>2
  <1> QED BY <1>6, <1>7 DEF M

LEMMA FollowedFacts ==
    ASSUME NEW s, NEW r, IsMeaning(s), IsMeaning(r)
    PROVE  IsMeaning(Followed(s, r))
  <1>1. IsText(s.text \o r.text)
    BY Joined DEF IsMeaning
  <1>2. Followed(s, r).ok = r.ok /\ Followed(s, r).text = s.text \o r.text /\ Followed(s, r).length = s.length + r.length
    BY DEF Followed
  <1> QED BY <1>1, <1>2 DEF IsMeaning

LEMMA MeaningsAreMeanings ==
    ASSUME NEW c \in Calls
    PROVE  \A p \in 1..(Len(c.format) + 1), n \in Nat : IsMeaning(Meanings(c)[p][n])
  <1> DEFINE L == Len(c.format)
             Good(j) == \A n \in Nat : IsMeaning(Meanings(c)[L + 1 - j][n])
             T == {j \in 0..L : ~ Good(j)}
  <1>1. L \in Nat
    BY CallFacts
  <1>2. T \subseteq Nat /\ T \subseteq 0..L
    BY <1>1
  <1>3. \A j \in 0..L : j \notin T <=> Good(j)
    OBVIOUS
  <1> HIDE DEF T
  <1>4. T = {}
    <2> SUFFICES ASSUME T # {} PROVE FALSE
      OBVIOUS
    <2>1. PICK j \in T : \A m \in T : j <= m
      BY <1>2, LeastMember
    <2> DEFINE k == L + 1 - j
    <2>2. j \in 0..L /\ k \in 1..(L + 1) /\ j \in Nat
      BY <1>1, <1>2
    <2>3. CASE j = 0
      <3>1. k = L + 1
        BY <1>1, <2>3
      <3>2. \A n \in Nat : IsMeaning(Meanings(c)[k][n])
        BY <3>1, MeaningsUnfold, NoMeaning
      <3> QED BY <1>3, <2>2, <3>2
    <2>4. CASE j # 0
      <3>1. k \in 1..L
        BY <1>1, <2>2, <2>4
      <3>2. ASSUME NEW n \in Nat PROVE IsMeaning(Meanings(c)[k][n])
        <4> DEFINE s == Standing(c, k, n)
                   r == Meanings(c)[s.next][s.arg]
        <4>1. Meanings(c)[k][n] = IF ~s.ok THEN Malformed ELSE Followed(s, r)
          BY <3>1, MeaningsUnfold
        <4>2. /\ IsMeaning(s)
              /\ s.ok => s.next \in (k + 1)..(L + 1) /\ s.arg \in Nat
          BY <3>1, StandingFacts
        <4> HIDE DEF s
        <4>3. CASE s.ok
          <5> DEFINE i == L + 1 - s.next
          <5>0. s.next \in (k + 1)..(L + 1)
            BY <4>2, <4>3
          <5>1. i \in 0..L /\ ~ (j <= i) /\ L + 1 - i = s.next
            <6> HIDE DEF L
            <6> QED BY <1>1, <2>2, <5>0
          <5>2. i \notin T
            BY <2>1, <5>1
          <5>3. Good(i)
            BY <1>3, <5>1, <5>2
          <5>4. IsMeaning(r)
            BY <4>2, <4>3, <5>1, <5>3
          <5> HIDE DEF r
          <5> QED BY <4>1, <4>2, <4>3, <5>4, FollowedFacts
        <4>4. CASE ~s.ok
          BY <4>1, <4>4, NoMeaning
        <4> QED BY <4>3, <4>4
      <3> QED BY <1>3, <2>2, <3>2
    <2> QED BY <2>3, <2>4
  <1>5. ASSUME NEW p \in 1..(L + 1), NEW n \in Nat PROVE IsMeaning(Meanings(c)[p][n])
    <2>1. L + 1 - p \in 0..L /\ L + 1 - (L + 1 - p) = p
      BY <1>1
    <2>2. Good(L + 1 - p)
      BY <1>3, <1>4, <2>1
    <2> QED BY <2>1, <2>2
  <1> QED BY <1>5

-----------------------------------------------------------------------------
(* What the loop has read *)

\* The format c is t, what stands in it from b to a, and what it means from a
\* on; all but the last is r + (a - b) long.
Reads(c, t, b, a, n, r) ==
    /\ IsText(t) /\ a \in 1..(Len(c.format) + 1) /\ b \in 1..a /\ n \in Nat /\ r \in Nat
    /\ Meaning(c).ok = Meanings(c)[a][n].ok
    /\ Meaning(c).text = (t \o SubSeq(c.format, b, a - 1)) \o Meanings(c)[a][n].text
    /\ Meaning(c).length = r + (a - b) + Meanings(c)[a][n].length

LEMMA ReadsAll == ASSUME NEW c \in Calls PROVE Reads(c, <<>>, 1, 1, 0, 0)
  <1> DEFINE m == Meaning(c)
             e == <<>>
  <1>1. m = Meanings(c)[1][0] /\ 1 \in 1..(Len(c.format) + 1) /\ 1 - 1 = 0
    BY CallFacts DEF Meaning
  <1>2. IsMeaning(m)
    BY <1>1, MeaningsAreMeanings
  <1>3. IsText(e) /\ SubSeq(c.format, 1, 1 - 1) = e
    BY <1>1, Short, NoCharacter, CallFacts
  <1>4. (e \o e) \o m.text = m.text
    BY <1>2, <1>3, JoinEmpty DEF IsMeaning
  <1>5. m.length = 0 + (1 - 1) + m.length
    BY <1>2 DEF IsMeaning
  <1> HIDE DEF m, e
  <1>6. Reads(c, e, 1, 1, 0, 0)
    BY <1>1, <1>3, <1>4, <1>5 DEF Reads, m
  <1> QED BY <1>6 DEF e

LEMMA FollowedFields ==
    \A s, m : /\ Followed(s, m).ok = m.ok /\ Followed(s, m).text = s.text \o m.text
              /\ Followed(s, m).length = s.length + m.length
  BY DEF Followed

\* Parts of a text put together in either order.
LEMMA JoinParts ==
    ASSUME NEW s, NEW t, NEW u, IsText(s), IsText(t), IsText(u),
           NEW v, v = s \o t, NEW w, w = t \o u
    PROVE  v \o u = s \o w
  BY JoinTwice

LEMMA ReadsTypes ==
    ASSUME NEW c \in Calls, NEW t, NEW b, NEW a, NEW n, NEW r, Reads(c, t, b, a, n, r)
    PROVE  /\ c.format \in Seq(STRING) /\ Len(c.format) \in Nat
           /\ a \in 1..(Len(c.format) + 1) /\ b \in 1..a /\ n \in Nat /\ r \in Nat
           /\ b \in 1..(Len(c.format) + 1) /\ a \in b..(Len(c.format) + 1)
           /\ IsText(t) /\ IsText(SubSeq(c.format, b, a - 1)) /\ IsText(t \o SubSeq(c.format, b, a - 1))
  <1>1. /\ a \in 1..(Len(c.format) + 1) /\ b \in 1..a /\ n \in Nat /\ r \in Nat /\ IsText(t)
    BY DEF Reads
  <1>2. c.format \in Seq(STRING) /\ Len(c.format) \in Nat
    BY CallFacts
  <1>3. b \in 1..(Len(c.format) + 1) /\ a \in b..(Len(c.format) + 1)
    BY <1>1, <1>2
  <1>4. IsText(SubSeq(c.format, b, a - 1))
    BY <1>2, <1>3, PieceOfFormat
  <1>5. IsText(t \o SubSeq(c.format, b, a - 1))
    <2> DEFINE p == SubSeq(c.format, b, a - 1)
    <2> HIDE DEF p
    <2>1. IsText(t \o p)
      BY <1>1, <1>4, Joined DEF p
    <2> QED BY <2>1 DEF p
  <1> QED BY <1>1, <1>2, <1>3, <1>4, <1>5

\* What follows a place.
RestOf(c, a, n) == Meanings(c)[Standing(c, a, n).next][Standing(c, a, n).arg]

\* What the place a adds to the meaning.
LEMMA ReadsNext ==
    ASSUME NEW c \in Calls, NEW t, NEW b, NEW a \in 1..Len(c.format), NEW n, NEW r,
           Reads(c, t, b, a, n, r), Standing(c, a, n).ok
    PROVE  /\ IsMeaning(Standing(c, a, n)) /\ IsMeaning(RestOf(c, a, n))
           /\ Standing(c, a, n).next \in (a + 1)..(Len(c.format) + 1) /\ Standing(c, a, n).arg \in Nat
           /\ Meaning(c).ok = RestOf(c, a, n).ok
           /\ Meaning(c).text = ((t \o SubSeq(c.format, b, a - 1)) \o Standing(c, a, n).text) \o RestOf(c, a, n).text
           /\ Meaning(c).length = r + (a - b) + Standing(c, a, n).length + RestOf(c, a, n).length
  <1> DEFINE s == Standing(c, a, n)
             m == RestOf(c, a, n)
             u == t \o SubSeq(c.format, b, a - 1)
             M == Meanings(c)[a][n]
  <1>1. n \in Nat /\ r \in Nat /\ Len(c.format) \in Nat /\ b \in 1..a /\ IsText(u)
    BY ReadsTypes
  <1>2. IsMeaning(s) /\ s.next \in (a + 1)..(Len(c.format) + 1) /\ s.arg \in Nat
    BY <1>1, StandingFacts
  <1>3. s.next \in 1..(Len(c.format) + 1)
    BY <1>1, <1>2
  <1>4. IsMeaning(m)
    BY <1>2, <1>3, MeaningsAreMeanings DEF RestOf
  <1>5. M = Followed(s, m)
    BY <1>1, MeaningsUnfold DEF RestOf
  <1>6. Meaning(c).ok = M.ok /\ Meaning(c).text = u \o M.text /\ Meaning(c).length = r + (a - b) + M.length
    BY DEF Reads
  <1> HIDE DEF s, m, u, M
  <1>7. M.ok = m.ok /\ M.text = s.text \o m.text /\ M.length = s.length + m.length
    BY <1>5, FollowedFields
  <1>8. u \o (s.text \o m.text) = (u \o s.text) \o m.text
    <2>1. IsText(s.text) /\ IsText(m.text)
      BY <1>2, <1>4 DEF IsMeaning
    <2> DEFINE x == s.text
               y == m.text
               v == u \o x
               w == x \o y
    <2>2. v = u \o x /\ w = x \o y
      OBVIOUS
    <2> HIDE DEF x, y, v, w
    <2>3. IsText(u) /\ IsText(x) /\ IsText(y)
      BY <1>1, <2>1 DEF x, y
    <2>4. v \o y = u \o w
      BY <2>2, <2>3, JoinParts
    <2> QED BY <2>2, <2>4 DEF x, y
  <1>9. r + (a - b) + (s.length + m.length) = r + (a - b) + s.length + m.length
    <2>1. r \in Int /\ a \in Int /\ b \in Int /\ s.length \in Int /\ m.length \in Int
      BY <1>1, <1>2, <1>4 DEF IsMeaning
    <2> QED BY <2>1
  <1> QED BY <1>2, <1>4, <1>6, <1>7, <1>8, <1>9 DEF s, m, u

LEMMA ReadsCharacter ==
    ASSUME NEW c \in Calls, NEW t, NEW b, NEW a \in 1..Len(c.format), NEW n, NEW r,
           Reads(c, t, b, a, n, r), c.format[a] # Open,
           ~ (c.format[a] = "\\" /\ a < Len(c.format) /\ c.format[a + 1] = Open)
    PROVE  Reads(c, t, b, a + 1, n, r)
  <1> DEFINE f == c.format
             s == Standing(c, a, n)
             u == t \o SubSeq(f, b, a - 1)
             m == RestOf(c, a, n)
             x == <<f[a]>>
  <1>1. s = [ok |-> TRUE, text |-> x, length |-> 1, next |-> a + 1, arg |-> n]
    BY DEF Standing
  <1>2. s.ok /\ s.text = x /\ s.length = 1 /\ s.next = a + 1 /\ s.arg = n
    BY <1>1
  <1>3. /\ IsText(u) /\ IsMeaning(s) /\ IsMeaning(m) /\ n \in Nat
        /\ s.next \in (a + 1)..(Len(c.format) + 1) /\ s.arg \in Nat
        /\ Meaning(c).ok = m.ok
        /\ Meaning(c).text = (u \o s.text) \o m.text
        /\ Meaning(c).length = r + (a - b) + s.length + m.length
    <2>1. IsText(u) /\ n \in Nat
      BY ReadsTypes
    <2>2. Standing(c, a, n).ok
      BY <1>2
    <2>3. /\ IsMeaning(Standing(c, a, n)) /\ IsMeaning(RestOf(c, a, n))
          /\ Standing(c, a, n).next \in (a + 1)..(Len(c.format) + 1) /\ Standing(c, a, n).arg \in Nat
          /\ Meaning(c).ok = RestOf(c, a, n).ok
          /\ Meaning(c).text = ((t \o SubSeq(c.format, b, a - 1)) \o Standing(c, a, n).text) \o RestOf(c, a, n).text
          /\ Meaning(c).length = r + (a - b) + Standing(c, a, n).length + RestOf(c, a, n).length
      BY <2>2, ReadsNext, ZenonT(30)
    <2> QED BY <1>2, <2>1, <2>3
  <1>4. f \in Seq(STRING) /\ Len(f) \in Nat /\ b \in 1..a /\ IsText(t) /\ r \in Nat
    BY CallFacts DEF Reads
  <1> HIDE DEF f
  <1>5. /\ b \in 1..(Len(f) + 1) /\ a \in b..(Len(f) + 1) /\ a + 1 \in a..(Len(f) + 1)
        /\ a \in 1..Len(f) /\ a + 1 - 1 = a
    BY <1>4 DEF f
  <1>6. /\ SubSeq(f, b, a - 1) \o SubSeq(f, a, a + 1 - 1) = SubSeq(f, b, a + 1 - 1)
        /\ SubSeq(f, a, a) = x
        /\ IsText(SubSeq(f, b, a - 1)) /\ IsText(x)
    <2>1. SubSeq(f, b, a - 1) \o SubSeq(f, a, a + 1 - 1) = SubSeq(f, b, a + 1 - 1)
      BY <1>4, <1>5, PiecesJoin
    <2>2. SubSeq(f, a, a) = x
      BY <1>4, <1>5, OneCharacter
    <2>3. IsText(SubSeq(f, b, a - 1)) /\ IsText(x)
      BY <1>4, <1>5, PieceOfFormat, Short
    <2> QED BY <2>1, <2>2, <2>3
  <1>7. u \o x = t \o SubSeq(f, b, a + 1 - 1)
    <2> DEFINE p == SubSeq(f, b, a - 1)
               w == SubSeq(f, b, a + 1 - 1)
    <2>1. SubSeq(f, a, a + 1 - 1) = x
      BY <1>5, <1>6
    <2>2. w = p \o x /\ u = t \o p
      BY <1>6, <2>1
    <2>3. IsText(t) /\ IsText(p) /\ IsText(x)
      BY <1>4, <1>6
    <2> HIDE DEF p, w, x, u
    <2>4. u \o x = t \o w
      BY <2>2, <2>3, JoinParts, SMTT(30)
    <2> QED BY <2>4 DEF w
  <1>8. m = Meanings(c)[a + 1][n]
    BY <1>2 DEF RestOf
  <1> DEFINE v == u \o x
  <1>11. Meaning(c).text = v \o m.text
    BY <1>2, <1>3
  <1> HIDE DEF m, s, u, x, v
  <1>9. Meaning(c).length = r + (a + 1 - b) + m.length
    <2>1. r \in Int /\ a \in Int /\ b \in Int /\ m.length \in Int
      BY <1>3, <1>4, <1>5 DEF IsMeaning
    <2> QED BY <1>2, <1>3, <2>1
  <1>10. a + 1 \in 1..(Len(f) + 1) /\ b \in 1..(a + 1)
    BY <1>4, <1>5
  <1>12. v = t \o SubSeq(f, b, a + 1 - 1)
    BY <1>7 DEF v
  <1>13. IsText(t) /\ n \in Nat /\ r \in Nat /\ Meaning(c).ok = m.ok
    BY <1>3, <1>4
  <1>14. Meaning(c).text = (t \o SubSeq(f, b, a + 1 - 1)) \o Meanings(c)[a + 1][n].text
    BY <1>8, <1>11, <1>12
  <1>15. Meaning(c).ok = Meanings(c)[a + 1][n].ok
    BY <1>8, <1>13
  <1>16. Meaning(c).length = r + (a + 1 - b) + Meanings(c)[a + 1][n].length
    BY <1>8, <1>9
  <1>17. IsText(t) /\ n \in Nat /\ r \in Nat
    BY <1>13
  <1> DEFINE k == a + 1
  <1>18. /\ Meaning(c).text = (t \o SubSeq(f, b, k - 1)) \o Meanings(c)[k][n].text
         /\ Meaning(c).ok = Meanings(c)[k][n].ok
         /\ Meaning(c).length = r + (k - b) + Meanings(c)[k][n].length
         /\ k \in 1..(Len(f) + 1) /\ b \in 1..k
    BY <1>10, <1>14, <1>15, <1>16
  <1> USE DEF f
  <1> HIDE DEF k
  <1>19. Reads(c, t, b, k, n, r)
    BY <1>17, <1>18, Zenon DEF Reads
  <1> QED BY <1>19 DEF k

\* What is put of a format, up to a.
LEMMA ReadsPut ==
    ASSUME NEW c \in Calls, NEW t, IsText(t), NEW r \in Nat, NEW a \in 1..(Len(c.format) + 1), NEW n \in Nat,
           Meaning(c).ok = Meanings(c)[a][n].ok,
           Meaning(c).text = t \o Meanings(c)[a][n].text,
           Meaning(c).length = r + Meanings(c)[a][n].length
    PROVE  Reads(c, t, a, a, n, r)
  <1> DEFINE m == Meanings(c)[a][n]
             e == <<>>
  <1>1. IsMeaning(m)
    BY MeaningsAreMeanings
  <1>2. SubSeq(c.format, a, a - 1) = e /\ t \o e = t
    BY NoCharacter, CallFacts, JoinEmpty
  <1>3. a \in Int /\ a \in 1..a
    BY CallFacts
  <1> HIDE DEF m, e
  <1>4. r + (a - a) + m.length = r + m.length
    BY <1>1, <1>3 DEF IsMeaning
  <1> QED BY <1>2, <1>3, <1>4 DEF Reads, m

LEMMA ReadsEscape ==
    ASSUME NEW c \in Calls, NEW t, NEW b, NEW a \in 1..Len(c.format), NEW n, NEW r,
           Reads(c, t, b, a, n, r),
           c.format[a] = "\\", a < Len(c.format), c.format[a + 1] = Open
    PROVE  Reads(c, t \o SubSeq(c.format, b, a - 1), a + 1, a + 2, n, r + (a - b))
  <1> DEFINE f == c.format
             s == Standing(c, a, n)
             u == t \o SubSeq(f, b, a - 1)
             m == RestOf(c, a, n)
             x == <<Open>>
  <1>1. s = [ok |-> TRUE, text |-> x, length |-> 1, next |-> a + 2, arg |-> n]
    BY EndIsNoCharacter DEF Standing
  <1>2. s.ok /\ s.text = x /\ s.length = 1 /\ s.next = a + 2 /\ s.arg = n
    BY <1>1
  <1>3. /\ IsText(u) /\ IsMeaning(s) /\ IsMeaning(m) /\ n \in Nat
        /\ s.next \in (a + 1)..(Len(c.format) + 1) /\ s.arg \in Nat
        /\ Meaning(c).ok = m.ok
        /\ Meaning(c).text = (u \o s.text) \o m.text
        /\ Meaning(c).length = r + (a - b) + s.length + m.length
    <2>1. IsText(u) /\ n \in Nat
      BY ReadsTypes
    <2>2. Standing(c, a, n).ok
      BY <1>2
    <2>3. /\ IsMeaning(Standing(c, a, n)) /\ IsMeaning(RestOf(c, a, n))
          /\ Standing(c, a, n).next \in (a + 1)..(Len(c.format) + 1) /\ Standing(c, a, n).arg \in Nat
          /\ Meaning(c).ok = RestOf(c, a, n).ok
          /\ Meaning(c).text = ((t \o SubSeq(c.format, b, a - 1)) \o Standing(c, a, n).text) \o RestOf(c, a, n).text
          /\ Meaning(c).length = r + (a - b) + Standing(c, a, n).length + RestOf(c, a, n).length
      BY <2>2, ReadsNext, ZenonT(30)
    <2> QED BY <1>2, <2>1, <2>3
  <1>4. f \in Seq(STRING) /\ Len(f) \in Nat /\ b \in 1..a /\ IsText(t) /\ r \in Nat /\ a \in 1..Len(f) /\ a < Len(f)
    BY CallFacts DEF Reads
  <1>5. f[a + 1] = Open
    OBVIOUS
  <1> HIDE DEF f
  <1>6. /\ a + 1 \in 1..Len(f) /\ a + 2 - 1 = a + 1
        /\ a + 2 \in 1..(Len(f) + 1) /\ a + 1 \in 1..(a + 2) /\ r + (a - b) \in Nat
    BY <1>4
  <1>7. SubSeq(f, a + 1, a + 1) = <<f[a + 1]>>
    BY <1>4, <1>6, OneCharacter
  <1>8. SubSeq(f, a + 1, a + 2 - 1) = x
    BY <1>5, <1>6, <1>7
  <1>9. Meanings(c)[a + 2][n] = m
    BY <1>2 DEF RestOf
  <1> HIDE DEF m, s, u, x
  <1>10. Meaning(c).length = (r + (a - b)) + (a + 2 - (a + 1)) + m.length
    <2>1. r \in Int /\ a \in Int /\ b \in Int /\ m.length \in Int
      BY <1>3, <1>4 DEF IsMeaning
    <2> QED BY <1>2, <1>3, <2>1
  <1> DEFINE v == u \o x
  <1>12. Meaning(c).text = v \o m.text
    BY <1>2, <1>3
  <1>13. v = u \o SubSeq(f, a + 1, a + 2 - 1)
    BY <1>8
  <1> HIDE DEF v
  <1>14. IsText(u) /\ n \in Nat /\ Meaning(c).ok = m.ok
    BY <1>3
  <1>15. Meaning(c).text = (u \o SubSeq(f, a + 1, a + 2 - 1)) \o Meanings(c)[a + 2][n].text
    BY <1>9, <1>12, <1>13
  <1>16. Meaning(c).ok = Meanings(c)[a + 2][n].ok
    BY <1>9, <1>14
  <1>17. Meaning(c).length = (r + (a - b)) + (a + 2 - (a + 1)) + Meanings(c)[a + 2][n].length
    BY <1>9, <1>10
  <1>18. IsText(u) /\ n \in Nat /\ r + (a - b) \in Nat
    BY <1>6, <1>14
  <1> DEFINE k == a + 2
             h == a + 1
             q == r + (a - b)
  <1>19. /\ Meaning(c).text = (u \o SubSeq(f, h, k - 1)) \o Meanings(c)[k][n].text
         /\ Meaning(c).ok = Meanings(c)[k][n].ok
         /\ Meaning(c).length = q + (k - h) + Meanings(c)[k][n].length
         /\ k \in 1..(Len(f) + 1) /\ h \in 1..k /\ q \in Nat
    BY <1>6, <1>15, <1>16, <1>17, <1>18
  <1> USE DEF f
  <1> HIDE DEF k, h, q
  <1>11. Reads(c, u, h, k, n, q)
    BY <1>18, <1>19, Zenon DEF Reads
  <1> QED BY <1>11 DEF u, f, h, k, q

LEMMA ReadsPlaceholder ==
    ASSUME NEW c \in Calls, NEW t, NEW b, NEW a \in 1..Len(c.format), NEW n, NEW r,
           Reads(c, t, b, a, n, r), c.format[a] = Open, NEW s, s = PlaceholderAt(c, a, n)
    PROVE  /\ s.ok => Reads(c, t \o (SubSeq(c.format, b, a - 1) \o s.text), s.next, s.next, s.arg,
                            r + (a - b) + s.length)
           /\ ~s.ok => ~Meaning(c).ok
  <1> DEFINE piece == SubSeq(c.format, b, a - 1)
             u == t \o piece
             m == RestOf(c, a, n)
  <1>1. Standing(c, a, n) = s
    BY EndIsNoCharacter DEF Standing
  <1>2. CASE ~s.ok
    <2>1. Meanings(c)[a][n] = Malformed
      BY <1>1, <1>2, MeaningsUnfold DEF Reads
    <2> QED BY <1>2, <2>1, NoMeaning DEF Reads
  <1>3. CASE s.ok
    <2>1. /\ IsText(u) /\ IsMeaning(s) /\ IsMeaning(m) /\ n \in Nat
          /\ s.next \in (a + 1)..(Len(c.format) + 1) /\ s.arg \in Nat
          /\ Meaning(c).ok = m.ok
          /\ Meaning(c).text = (u \o s.text) \o m.text
          /\ Meaning(c).length = r + (a - b) + s.length + m.length
      <3>1. IsText(u) /\ n \in Nat
        BY ReadsTypes
      <3>2. Standing(c, a, n).ok
        BY <1>1, <1>3
      <3>3. /\ IsMeaning(Standing(c, a, n)) /\ IsMeaning(RestOf(c, a, n))
            /\ Standing(c, a, n).next \in (a + 1)..(Len(c.format) + 1) /\ Standing(c, a, n).arg \in Nat
            /\ Meaning(c).ok = RestOf(c, a, n).ok
            /\ Meaning(c).text = ((t \o SubSeq(c.format, b, a - 1)) \o Standing(c, a, n).text) \o RestOf(c, a, n).text
            /\ Meaning(c).length = r + (a - b) + Standing(c, a, n).length + RestOf(c, a, n).length
        BY <3>2, ReadsNext, ZenonT(30)
      <3> QED BY <1>1, <1>3, <3>1, <3>3
    <2>2. Len(c.format) \in Nat /\ b \in 1..a /\ IsText(t) /\ r \in Nat /\ a \in Nat /\ c.format \in Seq(STRING)
      BY CallFacts DEF Reads
    <2>3. IsText(piece)
      <3>1. b \in 1..(Len(c.format) + 1) /\ a \in b..(Len(c.format) + 1)
        BY <2>2
      <3> QED BY <2>2, <3>1, PieceOfFormat
    <2> HIDE DEF piece, m
    <2>4. u \o s.text = t \o (piece \o s.text) /\ IsText(t \o (piece \o s.text))
      <3> DEFINE x == s.text
      <3>1. IsText(x)
        BY <2>1 DEF IsMeaning
      <3> DEFINE w == piece \o x
      <3>2. w = piece \o x /\ u = t \o piece
        OBVIOUS
      <3> HIDE DEF x, w, u
      <3>3. IsText(w) /\ IsText(t)
        BY <2>2, <2>3, <3>1, <3>2, Joined
      <3>4. u \o x = t \o w
        BY <2>3, <3>1, <3>2, <3>3, JoinParts
      <3>5. IsText(t \o w)
        BY <3>3, Joined
      <3> QED BY <3>2, <3>4, <3>5 DEF x
    <2>5. r + (a - b) + s.length \in Nat /\ s.next \in 1..(Len(c.format) + 1)
      <3>1. s.length \in Nat
        BY <2>1 DEF IsMeaning
      <3>2. r + (a - b) \in Nat
        BY <2>2
      <3>3. s.next \in 1..(Len(c.format) + 1)
        BY <2>1, <2>2
      <3> QED BY <3>1, <3>2, <3>3
    <2>7. m = Meanings(c)[s.next][s.arg]
      BY <1>1 DEF m, RestOf
    <2>6. Reads(c, t \o (piece \o s.text), s.next, s.next, s.arg, r + (a - b) + s.length)
      BY <2>1, <2>4, <2>5, <2>7, ReadsPut
    <2> QED BY <1>3, <2>6 DEF piece
  <1> QED BY <1>2, <1>3

LEMMA ReadsEnd ==
    ASSUME NEW c \in Calls, NEW t, NEW b, NEW a, a = Len(c.format) + 1, NEW n, NEW r,
           Reads(c, t, b, a, n, r)
    PROVE  /\ Meaning(c).ok /\ Meaning(c).text = t \o SubSeq(c.format, b, a - 1)
           /\ Meaning(c).length = r + (a - b)
  <1> DEFINE u == t \o SubSeq(c.format, b, a - 1)
             e == <<>>
  <1>1. Meanings(c)[a][n] = Empty
    BY MeaningsUnfold DEF Reads
  <1>2. Meanings(c)[a][n].ok = TRUE /\ Meanings(c)[a][n].text = e /\ Meanings(c)[a][n].length = 0
    BY <1>1 DEF Empty
  <1>3. IsText(u)
    BY ReadsTypes
  <1>4. u \o e = u
    BY <1>3, JoinEmpty
  <1>5. r \in Int /\ a \in Int /\ b \in Int
    BY CallFacts DEF Reads
  <1>6. Meaning(c).ok = Meanings(c)[a][n].ok
    BY DEF Reads
  <1>7. Meaning(c).text = u \o e
    BY <1>2 DEF Reads
  <1>8. Meaning(c).length = r + (a - b) + 0
    BY <1>2 DEF Reads
  <1> HIDE DEF e, u
  <1>9. Meaning(c).ok
    BY <1>2, <1>6
  <1>10. Meaning(c).length = r + (a - b)
    BY <1>5, <1>8
  <1>11. Meaning(c).text = u
    BY <1>4, <1>7
  <1> QED BY <1>9, <1>10, <1>11 DEF u

-----------------------------------------------------------------------------
(* The loop and the grammar *)

LEMMA DigitsAreTheTen ==
    \A d \in 0..9 : Digit(d) \in {"0", "1", "2", "3", "4", "5", "6", "7", "8", "9"}
  BY DEF Digit, Digits

LEMMA CloseIsNoDigit == ~IsDigit(Close)
  <1>1. Close \notin {"0", "1", "2", "3", "4", "5", "6", "7", "8", "9"}
    BY Zenon DEF Close
  <1> QED BY <1>1, DigitsAreTheTen, Zenon DEF IsDigit

LEMMA CloseIsNoColon == Close # ":"
  BY Zenon DEF Close

\* There is only one place where the digits of a placeholder end.
LEMMA OneDigitsEnd ==
    ASSUME NEW f \in Seq(STRING), NEW p \in 1..Len(f), NEW e \in (p + 1)..(Len(f) + 1),
           \A k \in (p + 1)..(e - 1) : IsDigit(f[k]),
           e <= Len(f) => ~IsDigit(f[e])
    PROVE  e = DigitsEnd(f, p)
  <1> DEFINE n == Len(f)
             d == DigitsEnd(f, p)
             c == CloseOf(f, p)
  <1>1. n \in Nat /\ p \in Nat /\ e \in (p + 1)..(n + 1)
    OBVIOUS
  <1>2. c \in (p + 1)..(n + 1) /\ (c <= n => f[c] = Close)
    BY CloseFound
  <1>3. d \in (p + 1)..c /\ (d < c => ~IsDigit(f[d])) /\ \A k \in (p + 1)..(d - 1) : IsDigit(f[k])
    BY DigitsEndFound
  <1> HIDE DEF n, d, c
  <1>4. CASE e < d
    <2>1. e \in (p + 1)..(d - 1) /\ e <= n
      BY <1>1, <1>2, <1>3, <1>4
    <2>2. IsDigit(f[e])
      BY <1>3, <2>1
    <2>3. ~IsDigit(f[e])
      BY <2>1 DEF n
    <2> QED BY <2>2, <2>3
  <1>5. CASE d < e
    <2>1. d \in (p + 1)..(e - 1) /\ d <= n
      BY <1>1, <1>2, <1>3, <1>5
    <2>2. IsDigit(f[d])
      BY <2>1
    <2>3. d = c
      BY <1>1, <1>2, <1>3, <2>2
    <2> QED BY <1>2, <2>1, <2>2, <2>3, CloseIsNoDigit
  <1>6. e \in Int /\ d \in Int
    BY <1>1, <1>2, <1>3
  <1>7. CASE e = d
    BY <1>7 DEF d
  <1> QED BY <1>4, <1>5, <1>6, <1>7

LEMMA OneClose ==
    ASSUME NEW f \in Seq(STRING), NEW p \in 1..Len(f), NEW e \in (p + 1)..(Len(f) + 1),
           \A k \in (p + 1)..(e - 1) : f[k] # Close,
           e <= Len(f) => f[e] = Close
    PROVE  e = CloseOf(f, p)
  <1> DEFINE n == Len(f)
             c == CloseOf(f, p)
  <1>1. n \in Nat /\ p \in Nat /\ e \in (p + 1)..(n + 1)
    OBVIOUS
  <1>2. c \in (p + 1)..(n + 1) /\ (c <= n => f[c] = Close) /\ \A k \in (p + 1)..(c - 1) : f[k] # Close
    BY CloseFound
  <1> HIDE DEF c
  <1>3. CASE e < c
    <2>1. e \in (p + 1)..(c - 1) /\ e <= n
      BY <1>1, <1>2, <1>3
    <2> QED BY <1>2, <2>1
  <1>4. CASE c < e
    <2>1. c \in (p + 1)..(e - 1) /\ c <= n
      BY <1>1, <1>2, <1>4
    <2> QED BY <1>2, <2>1
  <1>5. e = c
    BY <1>1, <1>2, <1>3, <1>4
  <1> QED BY <1>5 DEF c

\* The loop looks at the format of a call, where no character is End.
LEMMA AtCharacter ==
    ASSUME Inv
    PROVE  /\ \A i \in 1..Len(call.format) : At(i) = call.format[i] /\ At(i) # End
           /\ At(Len(call.format) + 1) = End
  <1>1. call \in Calls
    BY DEF Inv
  <1>2. Len(call.format) \in Nat /\ \A i \in 1..Len(call.format) : call.format[i] # End
    BY <1>1, CallFacts
  <1> QED BY <1>2 DEF At

LEMMA NumberEndIsDigitsEnd ==
    ASSUME Inv, pos <= Len(call.format)
    PROVE  NumberEnd = DigitsEnd(call.format, pos)
  <1> DEFINE f == call.format
  <1>1. call \in Calls /\ f \in Seq(STRING) /\ Len(f) \in Nat /\ pos \in 1..Len(f)
    BY Facts DEF Inv
  <1>2. /\ NumberEnd \in (pos + 1)..(Len(f) + 1)
        /\ ~IsDigit(At(NumberEnd)) \/ At(NumberEnd) = End
        /\ \A k \in (pos + 1)..(NumberEnd - 1) : IsDigit(At(k))
    BY NumberEndFound
  <1>3. \A i \in 1..Len(f) : At(i) = f[i] /\ At(i) # End
    BY AtCharacter
  <1> HIDE DEF f
  <1>4. \A k \in (pos + 1)..(NumberEnd - 1) : k \in 1..Len(f)
    BY <1>1, <1>2
  <1>5. \A k \in (pos + 1)..(NumberEnd - 1) : IsDigit(f[k])
    BY <1>2, <1>3, <1>4
  <1>6. NumberEnd <= Len(f) => NumberEnd \in 1..Len(f)
    BY <1>1, <1>2
  <1>7. NumberEnd <= Len(f) => ~IsDigit(f[NumberEnd])
    BY <1>2, <1>3, <1>6
  <1>8. NumberEnd = DigitsEnd(f, pos)
    BY <1>1, <1>2, <1>5, <1>7, OneDigitsEnd
  <1> QED BY <1>8 DEF f

LEMMA SpecEndIsClose ==
    ASSUME Inv, pos <= Len(call.format)
    PROVE  /\ SpecEnd = CloseOf(call.format, pos)
           /\ SpecEnd \in (pos + 1)..(Len(call.format) + 1)
           /\ SpecEnd > Len(call.format) <=> At(SpecEnd) # Close
           /\ SpecBegin = IF NumberEnd < SpecEnd /\ call.format[NumberEnd] = ":" THEN NumberEnd + 1 ELSE NumberEnd
  <1> DEFINE f == call.format
             n == Len(call.format)
  <1>1. call \in Calls /\ f \in Seq(STRING) /\ n \in Nat /\ pos \in 1..n
    BY Facts DEF Inv
  <1>2. /\ NumberEnd \in (pos + 1)..(n + 1)
        /\ \A k \in (pos + 1)..(NumberEnd - 1) : IsDigit(At(k))
    BY NumberEndFound
  <1>3. (\A i \in 1..n : At(i) = f[i] /\ At(i) # End) /\ At(n + 1) = End
    BY AtCharacter
  <1>4. /\ SpecBegin \in (pos + 1)..(n + 1) /\ SpecEnd \in SpecBegin..(n + 1)
        /\ At(SpecEnd) = Close \/ At(SpecEnd) = End
        /\ \A k \in SpecBegin..(SpecEnd - 1) : At(k) # Close
    BY SpecEndFound
  <1>5. SpecBegin = IF At(NumberEnd) = ":" THEN NumberEnd + 1 ELSE NumberEnd
    BY DEF SpecBegin
  <1> HIDE DEF f, n
  <1>6. ASSUME NEW k \in (pos + 1)..(SpecEnd - 1) PROVE f[k] # Close
    <2>1. k \in 1..n /\ At(k) = f[k]
      BY <1>1, <1>3, <1>4
    <2>2. CASE k < NumberEnd
      <3>1. k \in (pos + 1)..(NumberEnd - 1)
        BY <1>1, <1>2, <2>2
      <3>2. IsDigit(At(k))
        BY <1>2, <3>1
      <3> QED BY <2>1, <3>2, CloseIsNoDigit
    <2>3. CASE k = NumberEnd /\ At(k) = ":"
      BY <2>1, <2>3, CloseIsNoColon
    <2>4. CASE ~ (k < NumberEnd) /\ ~ (k = NumberEnd /\ At(k) = ":")
      <3>1. k \in SpecBegin..(SpecEnd - 1)
        BY <1>1, <1>2, <1>4, <1>5, <2>4
      <3> QED BY <1>4, <2>1, <3>1
    <2> QED BY <2>2, <2>3, <2>4
  <1>7. SpecEnd \in (pos + 1)..(n + 1)
    BY <1>1, <1>4
  <1>8. SpecEnd <= n => SpecEnd \in 1..n
    BY <1>1, <1>7
  <1>9. SpecEnd <= n => f[SpecEnd] = Close /\ At(SpecEnd) = Close
    BY <1>3, <1>4, <1>8
  <1>10. SpecEnd > n <=> At(SpecEnd) # Close
    <2>1. SpecEnd > n => SpecEnd = n + 1
      BY <1>1, <1>7
    <2>2. SpecEnd > n \/ SpecEnd <= n
      BY <1>1, <1>7
    <2>3. SpecEnd > n => ~ (SpecEnd <= n)
      BY <1>1, <1>7
    <2> QED BY <1>3, <1>9, <2>1, <2>2, <2>3, EndIsNoCharacter
  <1>11. SpecEnd = CloseOf(f, pos)
    <2>1. pos \in 1..Len(f) /\ SpecEnd \in (pos + 1)..(Len(f) + 1) /\ (SpecEnd <= Len(f) => f[SpecEnd] = Close)
      BY <1>1, <1>7, <1>9 DEF n, f
    <2> QED BY <1>1, <1>6, <2>1, OneClose
  <1>12. At(NumberEnd) = ":" <=> NumberEnd < SpecEnd /\ f[NumberEnd] = ":"
    <2>1. NumberEnd <= n => NumberEnd \in 1..n
      BY <1>1, <1>2
    <2>2. NumberEnd = n + 1 \/ NumberEnd <= n
      BY <1>1, <1>2
    <2>3. At(NumberEnd) = ":" => NumberEnd <= n /\ f[NumberEnd] = ":"
      BY <1>3, <2>1, <2>2, EndIsNoCharacter
    <2>4. At(NumberEnd) = ":" => SpecBegin = NumberEnd + 1
      BY <1>5
    <2>5. At(NumberEnd) = ":" => NumberEnd < SpecEnd
      BY <1>2, <1>4, <2>4
    <2>6. NumberEnd < SpecEnd => NumberEnd <= n
      BY <1>1, <1>2, <1>4
    <2> QED BY <1>3, <2>1, <2>3, <2>5, <2>6
  <1>13. SpecBegin = IF NumberEnd < SpecEnd /\ f[NumberEnd] = ":" THEN NumberEnd + 1 ELSE NumberEnd
    BY <1>5, <1>12
  <1> QED BY <1>7, <1>10, <1>11, <1>13 DEF f, n

\* What the loop finds in a placeholder is what stands there.
LEMMA PlaceholderFound ==
    ASSUME Inv, pos <= Len(call.format)
    PROVE  IF Target < Len(call.args) /\ At(SpecEnd) = Close
           THEN PlaceholderAt(call, pos, arg) =
                    [ok     |-> TRUE,
                     text   |-> Text(call.args[Target + 1], Piece(SpecBegin, SpecEnd)),
                     length |-> Reported(call.args[Target + 1],
                                         Text(call.args[Target + 1], Piece(SpecBegin, SpecEnd))),
                     next   |-> SpecEnd + 1,
                     arg    |-> IF Explicit THEN arg ELSE arg + 1]
           ELSE PlaceholderAt(call, pos, arg) = Malformed
  <1> DEFINE f == call.format
             close == CloseOf(f, pos)
             e == DigitsEnd(f, pos)
             which == IF e = pos + 1 THEN arg ELSE ReadDigits(SubSeq(f, pos + 1, e - 1), 10)
             colon == e < close /\ f[e] = ":"
             spec == SubSeq(f, IF colon THEN e + 1 ELSE e, close - 1)
             P(b, t) == [ok |-> TRUE, text |-> t, length |-> Reported(b, t),
                         next |-> close + 1, arg |-> IF e = pos + 1 THEN arg + 1 ELSE arg]
  <1>1. PlaceholderAt(call, pos, arg) =
            IF close > Len(f) \/ which >= Len(call.args) THEN Malformed
            ELSE P(call.args[which + 1], Text(call.args[which + 1], spec))
    BY DEF PlaceholderAt
  <1>2. NumberEnd = e /\ SpecEnd = close
    BY NumberEndIsDigitsEnd, SpecEndIsClose
  <1>3. NumberEnd \in (pos + 1)..(Len(f) + 1) /\ pos \in Nat /\ Len(f) \in Nat /\ Len(call.args) \in Nat
    BY NumberEndFound, Facts
  <1>4. Explicit <=> e # pos + 1
    BY <1>2, <1>3 DEF Explicit
  <1>5. Target = which
    BY <1>2, <1>4 DEF Target, Piece
  <1>6. Piece(SpecBegin, SpecEnd) = spec
    BY <1>2, SpecEndIsClose DEF Piece
  <1>7. close > Len(f) <=> At(SpecEnd) # Close
    BY <1>2, SpecEndIsClose
  <1>8. Target \in Nat
    BY TargetIsNumber
  <1>9. which >= Len(call.args) <=> ~ (Target < Len(call.args))
    BY <1>3, <1>5, <1>8
  <1> HIDE DEF close, e, which, spec, f
  <1>10. P(call.args[which + 1], Text(call.args[which + 1], spec)) =
            [ok     |-> TRUE,
             text   |-> Text(call.args[Target + 1], Piece(SpecBegin, SpecEnd)),
             length |-> Reported(call.args[Target + 1],
                                 Text(call.args[Target + 1], Piece(SpecBegin, SpecEnd))),
             next   |-> SpecEnd + 1,
             arg    |-> IF Explicit THEN arg ELSE arg + 1]
    BY <1>2, <1>4, <1>5, <1>6
  <1> HIDE DEF P
  <1> QED BY <1>1, <1>7, <1>9, <1>10

\* The loop's At, of any call.
CharAt(c, i) == IF i <= Len(c.format) THEN c.format[i] ELSE End

\* How far what the loop has read is settled: a backslash is not, when the
\* brace it escapes comes next.
Settled(c, p, before) == IF before = "\\" /\ CharAt(c, p) = Open THEN p - 1 ELSE p

\* t is put, as far as there is room.
IsPut(c, t, m) == m = Clip(t, Room(c))

\* While the loop runs, the format is the text that is put, what was read since
\* and is not put yet, and what it means from there on.
MeaningInv ==
    /\ Inv
    /\ prev = IF pos = 1 THEN End ELSE CharAt(call, pos - 1)
    /\ outcome = "running" =>
           \E t : IsPut(call, t, mem) /\ Reads(call, t, pBegin, Settled(call, pos, prev), arg, res)
    /\ FormatIsItsMeaning

LEMMA AtIsCharAt == \A i : At(i) = CharAt(call, i)
  BY DEF At, CharAt

\* Putting more than there is room for leaves what fits of the whole.
LEMMA PutMore ==
    ASSUME Inv, NEW t, IsText(t), IsPut(call, t, mem), NEW x, IsText(x), Put(x)
    PROVE  IsPut(call, t \o x, mem')
  <1>1. mem' = Clip(mem \o x, Room(call))
    BY DEF Put, Clip
  <1>2. mem = Clip(t, Room(call)) /\ Room(call) \in Nat
    BY Facts DEF IsPut
  <1>3. Clip(Clip(t, Room(call)) \o x, Room(call)) = Clip(t \o x, Room(call))
    BY <1>2, ClipAdded
  <1> QED BY <1>1, <1>2, <1>3 DEF IsPut

LEMMA TextFollowsEnds == ASSUME NEW c \in Calls, TextFollows(c) PROVE EndsInText(c)
  <1>1. c.format \in Seq(STRING) /\ Len(c.format) \in Nat
    BY CallFacts
  <1>2. c.format # <<>> => Len(c.format) \in 1..Len(c.format)
    BY <1>1
  <1>3. ~ (Len(c.format) < Len(c.format))
    BY <1>1
  <1> QED BY <1>2, <1>3 DEF TextFollows, EndsInText

\* A character the loop steps over, which may be a backslash before a brace.
LEMMA SettledCharacter ==
    ASSUME NEW c \in Calls, NEW p \in 1..Len(c.format), NEW t, NEW b, NEW n, NEW r,
           Reads(c, t, b, p, n, r), c.format[p] # Open
    PROVE  Reads(c, t, b, Settled(c, p + 1, c.format[p]), n, r)
  <1>1. Len(c.format) \in Nat /\ p \in Nat
    BY CallFacts
  <1>2. CASE c.format[p] = "\\" /\ CharAt(c, p + 1) = Open
    <2>1. p + 1 - 1 = p
      BY <1>1
    <2>2. Settled(c, p + 1, c.format[p]) = p
      BY <1>2, <2>1 DEF Settled
    <2> QED BY <2>2
  <1>3. CASE ~ (c.format[p] = "\\" /\ CharAt(c, p + 1) = Open)
    <2>1. p < Len(c.format) => CharAt(c, p + 1) = c.format[p + 1]
      BY <1>1 DEF CharAt
    <2>2. ~ (c.format[p] = "\\" /\ p < Len(c.format) /\ c.format[p + 1] = Open)
      BY <1>3, <2>1
    <2>3. Reads(c, t, b, p + 1, n, r)
      BY <2>2, ReadsCharacter
    <2>4. Settled(c, p + 1, c.format[p]) = p + 1
      BY <1>3 DEF Settled
    <2> QED BY <2>3, <2>4
  <1> QED BY <1>2, <1>3

LEMMA InitMeaning == FormatInit => MeaningInv
  <1> SUFFICES ASSUME FormatInit PROVE MeaningInv
    OBVIOUS
  <1> DEFINE e == <<>>
  <1>1. Inv /\ call \in Calls /\ prev = End /\ pos = 1 /\ outcome = "running" /\ mem = e
    BY InitInv DEF FormatInit
  <1>2. IsText(e) /\ Len(e) = 0 /\ Room(call) \in Nat
    BY <1>1, Short, Facts
  <1>3. Reads(call, e, 1, 1, 0, 0)
    BY <1>1, ReadsAll
  <1>4. Settled(call, 1, End) = 1
    BY EndIsNoCharacter DEF Settled
  <1>5. Reads(call, e, pBegin, Settled(call, pos, prev), arg, res)
    BY <1>1, <1>3, <1>4 DEF FormatInit
  <1> HIDE DEF e
  <1>6. IsPut(call, e, mem)
    <2> DEFINE m == Clip(e, Room(call))
    <2>1. IsText(m) /\ Len(m) = 0
      BY <1>2, ClipFacts
    <2> HIDE DEF m
    <2>2. m = e
      BY <1>2, <2>1, SameText
    <2> QED BY <1>1, <2>2 DEF IsPut, m
  <1>7. FormatIsItsMeaning
    BY <1>1 DEF FormatIsItsMeaning
  <1> QED BY <1>1, <1>5, <1>6, <1>7 DEF MeaningInv

\* The places the loop looks at.
LEMMA LoopFacts ==
    ASSUME Inv
    PROVE  /\ call \in Calls /\ Len(call.format) \in Nat /\ pos \in 1..(Len(call.format) + 1) /\ pBegin \in 1..pos
           /\ arg \in Nat
           /\ At(pos) # End => pos \in 1..Len(call.format) /\ At(pos) = call.format[pos]
           /\ At(pos) = End => pos = Len(call.format) + 1
  <1>1. call \in Calls /\ Len(call.format) \in Nat /\ pos \in 1..(Len(call.format) + 1) /\ pBegin \in 1..pos /\ arg \in Nat
    BY Facts DEF Inv
  <1>2. pos = Len(call.format) + 1 \/ pos \in 1..Len(call.format)
    BY <1>1
  <1> QED BY <1>1, <1>2, AtCharacter

\* What a step that goes on has to keep.
LEMMA StillRunning ==
    ASSUME Inv', outcome' = "running", call' = call, pos' # 1, prev' = CharAt(call, pos' - 1),
           NEW t, IsPut(call, t, mem'),
           Reads(call, t, pBegin', Settled(call, pos', prev'), arg', res')
    PROVE  MeaningInv'
  <1>1. IsPut(call', t, mem') /\ Reads(call', t, pBegin', Settled(call', pos', prev'), arg', res')
    OBVIOUS
  <1>2. \E u : IsPut(call', u, mem') /\ Reads(call', u, pBegin', Settled(call', pos', prev'), arg', res')
    BY <1>1
  <1>3. FormatIsItsMeaning'
    BY DEF FormatIsItsMeaning
  <1> QED BY <1>2, <1>3 DEF MeaningInv

\* What was read until now.
LEMMA ReadUntilNow ==
    ASSUME MeaningInv, outcome = "running"
    PROVE  /\ Inv /\ prev = (IF pos = 1 THEN End ELSE CharAt(call, pos - 1))
           /\ \E t : IsPut(call, t, mem) /\ Reads(call, t, pBegin, Settled(call, pos, prev), arg, res)
  BY DEF MeaningInv

LEMMA PlainMeaning ==
    ASSUME MeaningInv, PlainChar, Inv'
    PROVE  MeaningInv'
  <1>1. Inv /\ prev = (IF pos = 1 THEN End ELSE CharAt(call, pos - 1)) /\ FormatIsItsMeaning /\ outcome = "running"
    BY DEF MeaningInv, PlainChar
  <1>2. PICK t : IsPut(call, t, mem) /\ Reads(call, t, pBegin, Settled(call, pos, prev), arg, res)
    BY <1>1 DEF MeaningInv
  <1>3. /\ At(pos) # Open /\ At(pos) # End /\ pos' = pos + 1 /\ prev' = At(pos)
        /\ UNCHANGED <<call, pBegin, arg, res, mem, ended, outcome>>
    BY DEF PlainChar
  <1>4. call \in Calls /\ pos \in 1..Len(call.format) /\ At(pos) = call.format[pos]
    BY <1>1, <1>3, LoopFacts
  <1>5. Settled(call, pos, prev) = pos
    BY <1>3, AtIsCharAt DEF Settled
  <1>6. Reads(call, t, pBegin, Settled(call, pos + 1, call.format[pos]), arg, res)
    BY <1>2, <1>3, <1>4, <1>5, SettledCharacter
  <1>7. pos' # 1 /\ pos' - 1 = pos
    BY <1>3, <1>4
  <1>8. prev' = CharAt(call, pos' - 1)
    BY <1>3, <1>7, AtIsCharAt
  <1>9. IsPut(call, t, mem')
    BY <1>2, <1>3
  <1>10. Reads(call, t, pBegin', Settled(call, pos', prev'), arg', res')
    BY <1>3, <1>4, <1>6
  <1> QED BY <1>1, <1>3, <1>7, <1>8, <1>9, <1>10, StillRunning

LEMMA EscapeMeaning ==
    ASSUME MeaningInv, EscapedBrace, Inv'
    PROVE  MeaningInv'
  <1> DEFINE a == pos - 1
             f == call.format
  <1>1. /\ outcome = "running" /\ At(pos) = Open /\ prev = "\\" /\ Put(BeforeEscape(pBegin, pos))
        /\ res' = res + (pos - 1 - pBegin) /\ pBegin' = pos /\ pos' = pos + 1 /\ prev' = Open
        /\ call' = call /\ arg' = arg /\ outcome' = outcome
    BY DEF EscapedBrace
  <1>2. Inv /\ prev = (IF pos = 1 THEN End ELSE CharAt(call, pos - 1))
    BY <1>1, ReadUntilNow
  <1>3. PICK t : IsPut(call, t, mem) /\ Reads(call, t, pBegin, Settled(call, pos, prev), arg, res)
    BY <1>1, ReadUntilNow
  <1>4. /\ call \in Calls /\ pos \in 1..Len(f) /\ At(pos) = f[pos] /\ Len(f) \in Nat
        /\ pBegin \in 1..pos
    BY <1>1, <1>2, LoopFacts, EndIsNoCharacter
  <1>5. pos # 1
    BY <1>1, <1>2, EndIsNoCharacter
  <1>6. a \in 1..Len(f) /\ a < Len(f) /\ a + 1 = pos /\ a + 2 = pos + 1 /\ a <= Len(f)
    BY <1>4, <1>5
  <1>7. f[a] = "\\" /\ f[a + 1] = Open
    BY <1>1, <1>2, <1>4, <1>5, <1>6 DEF CharAt
  <1>8. Settled(call, pos, prev) = a
    BY <1>1, AtIsCharAt DEF Settled
  <1> DEFINE x == SubSeq(f, pBegin, a - 1)
  <1>9. Reads(call, t, pBegin, a, arg, res)
    BY <1>3, <1>8
  <1>10. Reads(call, t \o x, a + 1, a + 2, arg, res + (a - pBegin))
    BY <1>4, <1>6, <1>7, <1>9, ReadsEscape
  <1>11. BeforeEscape(pBegin, pos) = x
    BY DEF BeforeEscape, Piece
  <1>12. IsText(t) /\ IsText(x)
    BY <1>4, <1>9, ReadsTypes
  <1>13. IsPut(call, t \o x, mem')
    BY <1>1, <1>2, <1>3, <1>11, <1>12, PutMore
  <1>14. Settled(call, pos', prev') = pos + 1
    BY <1>1, EndIsNoCharacter DEF Settled
  <1>15. prev' = CharAt(call, pos' - 1) /\ pos' # 1
    <2>1. pos' - 1 = pos /\ pos' # 1
      BY <1>1, <1>4
    <2> QED BY <1>1, <2>1, AtIsCharAt
  <1> HIDE DEF x
  <1>16. Reads(call, t \o x, pBegin', Settled(call, pos', prev'), arg', res')
    BY <1>1, <1>6, <1>10, <1>14
  <1> QED BY <1>1, <1>13, <1>15, <1>16, StillRunning

LEMMA PlaceholderMeaning ==
    ASSUME MeaningInv, TextFollows(call), Placeholder, Inv'
    PROVE  MeaningInv'
  <1> DEFINE f == call.format
             a == call.args[Target + 1]
             text == Text(a, Piece(SpecBegin, SpecEnd))
             s == PlaceholderAt(call, pos, arg)
             x == SubSeq(f, pBegin, pos - 1)
             q == NextPos(call, SpecEnd)
  <1>1. /\ outcome = "running" /\ At(pos) = Open /\ prev # "\\"
        /\ Target < Len(call.args) /\ At(SpecEnd) = Close
        /\ Put(Piece(pBegin, pos) \o text)
        /\ res' = res + (pos - pBegin) + Reported(a, text)
        /\ arg' = (IF Explicit THEN arg ELSE arg + 1)
        /\ pBegin' = SpecEnd + 1 /\ pos' = q /\ prev' = At(q - 1) /\ call' = call
        /\ outcome' = IF pos' > Len(f) + 1 THEN "undefined" ELSE "running"
    BY DEF Placeholder, AtPlaceholder
  <1>2. Inv
    BY <1>1, ReadUntilNow
  <1>3. PICK t : IsPut(call, t, mem) /\ Reads(call, t, pBegin, Settled(call, pos, prev), arg, res)
    BY <1>1, ReadUntilNow
  <1>4. /\ call \in Calls /\ pos \in 1..Len(f) /\ pos <= Len(f) /\ At(pos) = f[pos] /\ Len(f) \in Nat
        /\ pBegin \in 1..pos
    BY <1>1, <1>2, LoopFacts, EndIsNoCharacter
  <1>5. Settled(call, pos, prev) = pos
    BY <1>1 DEF Settled
  <1>6. /\ s.ok /\ s.text = text /\ s.length = Reported(a, text) /\ s.next = SpecEnd + 1 /\ s.arg = arg'
    <2>1. s = [ok |-> TRUE, text |-> text, length |-> Reported(a, text), next |-> SpecEnd + 1,
               arg |-> IF Explicit THEN arg ELSE arg + 1]
      BY <1>1, <1>2, <1>4, PlaceholderFound
    <2> HIDE DEF s, a, text
    <2> QED BY <1>1, <2>1
  <1>7. SpecEnd \in 1..Len(f) /\ f[SpecEnd] = Close
    <2>1. SpecEnd \in (pos + 1)..(Len(f) + 1) /\ ~ (SpecEnd > Len(f))
      BY <1>1, <1>2, <1>4, SpecEndIsClose
    <2>2. SpecEnd \in 1..Len(f)
      BY <1>4, <2>1
    <2> QED BY <1>1, <1>2, <2>2, AtCharacter
  <1>8. Reads(call, t, pBegin, pos, arg, res)
    BY <1>3, <1>5
  <1>9. Reads(call, t \o (x \o s.text), s.next, s.next, s.arg, res + (pos - pBegin) + s.length)
    <2> HIDE DEF s
    <2>1. s = PlaceholderAt(call, pos, arg)
      BY DEF s
    <2> QED BY <1>1, <1>4, <1>6, <1>8, <2>1, ReadsPlaceholder
  <1> HIDE DEF s, text, a
  <1> DEFINE y == x \o text
  <1>10. Reads(call, t \o y, SpecEnd + 1, SpecEnd + 1, arg', res')
    BY <1>1, <1>6, <1>9
  <1>11. IsText(t) /\ IsText(y)
    <2>1. IsText(t) /\ IsText(x)
      BY <1>4, <1>8, ReadsTypes
    <2>2. IsMeaning(s)
      <3>1. arg \in Nat
        BY <1>2, LoopFacts
      <3> QED BY <1>4, <3>1, PlaceholderFacts DEF s
    <2>3. IsText(text)
      BY <1>6, <2>2 DEF IsMeaning
    <2> HIDE DEF x
    <2> QED BY <2>1, <2>3, Joined
  <1>12. Put(y)
    BY <1>1 DEF Piece
  <1> HIDE DEF y, x
  <1>13. IsPut(call, t \o y, mem')
    BY <1>2, <1>3, <1>11, <1>12, PutMore
  <1>14. CASE call.overload = "cstr"
    <2>1. q = SpecEnd + 1 /\ q - 1 = SpecEnd /\ q <= Len(f) + 1 /\ q # 1
      BY <1>4, <1>7, <1>14 DEF NextPos
    <2>2. outcome' = "running" /\ prev' = Close
      BY <1>1, <1>4, <2>1
    <2>3. Settled(call, pos', prev') = SpecEnd + 1
      BY <1>1, <2>1, <2>2, EndIsNoCharacter DEF Settled
    <2>4. prev' = CharAt(call, pos' - 1) /\ pos' # 1
      BY <1>1, <2>1, AtIsCharAt
    <2>5. Reads(call, t \o y, pBegin', Settled(call, pos', prev'), arg', res')
      BY <1>1, <1>10, <2>3
    <2> QED BY <1>1, <1>13, <2>2, <2>4, <2>5, StillRunning
  <1>15. CASE call.overload # "cstr"
    <2> DEFINE p == SpecEnd + 1
    <2>1. SpecEnd < Len(f) /\ f[p] # Open
      BY <1>7, <1>15 DEF TextFollows
    <2>2. q = p + 1 /\ q - 1 = p /\ q <= Len(f) + 1 /\ q # 1 /\ p \in 1..Len(f) /\ q \in Int
      BY <1>4, <1>7, <1>15, <2>1 DEF NextPos
    <2>3. outcome' = "running"
      BY <1>1, <1>4, <2>2
    <2>4. prev' = f[p]
      BY <1>1, <1>2, <2>2, AtCharacter
    <2>5. Reads(call, t \o y, p, p, arg', res')
      BY <1>10
    <2> HIDE DEF p
    <2>6. Reads(call, t \o y, p, Settled(call, p + 1, f[p]), arg', res')
      BY <1>4, <2>1, <2>2, <2>5, SettledCharacter
    <2>7. Reads(call, t \o y, pBegin', Settled(call, pos', prev'), arg', res')
      BY <1>1, <2>2, <2>4, <2>6 DEF p
    <2>8. prev' = CharAt(call, pos' - 1) /\ pos' # 1
      BY <1>1, <2>2, AtIsCharAt
    <2> QED BY <1>1, <1>13, <2>3, <2>7, <2>8, StillRunning
  <1> QED BY <1>14, <1>15

LEMMA FailureMeaning ==
    ASSUME MeaningInv, PlaceholderWithoutArguments \/ BadPlaceholder, Inv'
    PROVE  MeaningInv'
  <1>1. /\ outcome = "running" /\ At(pos) = Open /\ prev # "\\"
        /\ UNCHANGED <<call, pos, prev>> /\ outcome' = "error"
    BY DEF PlaceholderWithoutArguments, BadPlaceholder, AtPlaceholder, Fails
  <1>2. Inv /\ prev = IF pos = 1 THEN End ELSE CharAt(call, pos - 1)
    BY <1>1, ReadUntilNow
  <1>3. PICK t : IsPut(call, t, mem) /\ Reads(call, t, pBegin, Settled(call, pos, prev), arg, res)
    BY <1>1, ReadUntilNow
  <1>4. /\ call \in Calls /\ pos \in 1..Len(call.format) /\ pos <= Len(call.format)
        /\ At(pos) = call.format[pos] /\ Len(call.format) \in Nat
    BY <1>1, <1>2, LoopFacts, EndIsNoCharacter
  <1>5. ~ (Target < Len(call.args) /\ At(SpecEnd) = Close)
    <2>1. CASE BadPlaceholder
      <3>1. Target >= Len(call.args) \/ At(SpecEnd) # Close
        BY <2>1 DEF BadPlaceholder
      <3>2. Target \in Nat /\ Len(call.args) \in Nat
        BY <1>2, <1>4, TargetIsNumber, Facts
      <3> QED BY <3>1, <3>2
    <2>2. CASE PlaceholderWithoutArguments
      <3>1. call.args = <<>>
        BY <2>2 DEF PlaceholderWithoutArguments, NoArguments
      <3>2. Len(call.args) = 0
        BY <3>1
      <3>3. Target \in Nat
        BY <1>2, <1>4, TargetIsNumber
      <3> QED BY <3>2, <3>3
    <2> QED BY <2>1, <2>2
  <1> DEFINE s == PlaceholderAt(call, pos, arg)
  <1>6. s = Malformed
    BY <1>2, <1>4, <1>5, PlaceholderFound
  <1>7. s.ok = FALSE
    BY <1>6, NoMeaning
  <1>8. Settled(call, pos, prev) = pos
    BY <1>1 DEF Settled
  <1>9. Reads(call, t, pBegin, pos, arg, res)
    BY <1>3, <1>8
  <1> HIDE DEF s
  <1>10. ~Meaning(call).ok
    <2>1. s = PlaceholderAt(call, pos, arg)
      BY DEF s
    <2> QED BY <1>1, <1>4, <1>7, <1>9, <2>1, ReadsPlaceholder
  <1>11. FormatIsItsMeaning'
    BY <1>1, <1>10 DEF FormatIsItsMeaning
  <1> QED BY <1>1, <1>2, <1>11 DEF MeaningInv

LEMMA FinishMeaning ==
    ASSUME MeaningInv, Finish, Inv'
    PROVE  MeaningInv'
  <1> DEFINE x == SubSeq(call.format, pBegin, pos - 1)
             m == Meaning(call)
  <1>1. /\ outcome = "running" /\ At(pos) = End /\ Put(Piece(pBegin, pos))
        /\ res' = res + (pos - pBegin) /\ outcome' = "done" /\ UNCHANGED <<call, pos, prev>>
    BY DEF Finish
  <1>2. Inv /\ prev = IF pos = 1 THEN End ELSE CharAt(call, pos - 1)
    BY <1>1, ReadUntilNow
  <1>3. PICK t : IsPut(call, t, mem) /\ Reads(call, t, pBegin, Settled(call, pos, prev), arg, res)
    BY <1>1, ReadUntilNow
  <1>4. call \in Calls /\ pos = Len(call.format) + 1 /\ Room(call) \in Nat
    BY <1>1, <1>2, LoopFacts, Facts
  <1>5. Settled(call, pos, prev) = pos
    BY <1>1, AtIsCharAt, EndIsNoCharacter DEF Settled
  <1>6. Reads(call, t, pBegin, pos, arg, res)
    BY <1>3, <1>5
  <1>7. m.ok /\ m.text = t \o x /\ m.length = res + (pos - pBegin)
    BY <1>4, <1>6, ReadsEnd
  <1>8. IsText(t) /\ IsText(x) /\ IsText(t \o x)
    BY <1>4, <1>6, ReadsTypes
  <1>9. Put(x)
    BY <1>1 DEF Piece
  <1> HIDE DEF x, m
  <1>10. IsPut(call, t \o x, mem')
    BY <1>2, <1>3, <1>8, <1>9, PutMore
  <1>11. mem' = Clip(m.text, Room(call)) /\ IsText(m.text)
    BY <1>7, <1>8, <1>10 DEF IsPut
  <1>12. IsPrefix(mem', m.text) /\ (Len(mem') = Len(m.text) \/ Len(mem') = Room(call))
    BY <1>4, <1>11, ClipBegins
  <1>13. FormatIsItsMeaning'
    BY <1>1, <1>7, <1>12 DEF FormatIsItsMeaning, m
  <1> QED BY <1>1, <1>2, <1>13 DEF MeaningInv

LEMMA StepMeaning == MeaningInv /\ TextFollows(call) /\ [FormatNext]_formatVars => MeaningInv'
  <1> SUFFICES ASSUME MeaningInv, TextFollows(call), [FormatNext]_formatVars PROVE MeaningInv'
    OBVIOUS
  <1>1. Inv
    BY DEF MeaningInv
  <1>2. EndsInText(call)
    BY <1>1, TextFollowsEnds DEF Inv
  <1>3. Inv'
    BY <1>1, <1>2, StepInv
  <1>4. CASE PlainChar
    BY <1>3, <1>4, PlainMeaning
  <1>5. CASE EscapedBrace
    BY <1>3, <1>5, EscapeMeaning
  <1>6. CASE PlaceholderWithoutArguments \/ BadPlaceholder
    BY <1>3, <1>6, FailureMeaning
  <1>7. CASE Placeholder
    BY <1>3, <1>7, PlaceholderMeaning
  <1>8. CASE Finish
    BY <1>3, <1>8, FinishMeaning
  <1>9. CASE UNCHANGED formatVars
    <2>1. UNCHANGED <<call, pos, pBegin, prev, arg, res, mem, outcome>>
      BY <1>9 DEF formatVars
    <2>2. FormatIsItsMeaning'
      BY <2>1 DEF MeaningInv, FormatIsItsMeaning
    <2>3. CASE outcome = "running"
      <3>1. PICK t : IsPut(call, t, mem) /\ Reads(call, t, pBegin, Settled(call, pos, prev), arg, res)
        BY <2>3 DEF MeaningInv
      <3>2. IsPut(call', t, mem') /\ Reads(call', t, pBegin', Settled(call', pos', prev'), arg', res')
        BY <2>1, <3>1
      <3>3. \E u : IsPut(call', u, mem') /\ Reads(call', u, pBegin', Settled(call', pos', prev'), arg', res')
        BY <3>2
      <3> QED BY <1>3, <2>1, <2>2, <3>3 DEF MeaningInv
    <2>4. CASE outcome # "running"
      BY <1>3, <2>1, <2>2, <2>4 DEF MeaningInv
    <2> QED BY <2>3, <2>4
  <1> QED BY <1>4, <1>5, <1>6, <1>7, <1>8, <1>9 DEF FormatNext

-----------------------------------------------------------------------------
\* format_to fails for just the formats that its grammar calls malformed or
\* that name an argument that is not there; for every other it leaves in the
\* buffer the text the format stands for, as far as there is room, and returns
\* the whole text's length: however the escapes, numbers and specifications
\* follow each other, and wherever the buffer ends.
THEOREM FormatPrintsItsMeaning == FormatSpec => [](TextFollows(call) => FormatIsItsMeaning)
  <1> DEFINE I == TextFollows(call) => MeaningInv
  <1>1. FormatInit => I
    BY InitMeaning
  <1>2. I /\ [FormatNext]_formatVars => I'
    <2> SUFFICES ASSUME I, [FormatNext]_formatVars, TextFollows(call)' PROVE MeaningInv'
      OBVIOUS
    <2>1. TextFollows(call)
      BY CallIsFixed
    <2> QED BY <2>1, StepMeaning
  <1>3. I => (TextFollows(call) => FormatIsItsMeaning)
    BY DEF MeaningInv
  <1> HIDE DEF I
  <1> QED BY <1>1, <1>2, <1>3, PTL DEF FormatSpec

-----------------------------------------------------------------------------
(* Powers *)

\* A set of natural numbers that has 0, and with each number the next, has all.
LEMMA Inductive ==
    ASSUME NEW T, 0 \in T, \A n \in Nat : n \in T => n + 1 \in T
    PROVE  \A n \in Nat : n \in T
  <1> DEFINE R == {n \in Nat : n \notin T}
  <1>1. R \subseteq Nat /\ \A n \in Nat : n \notin R <=> n \in T
    OBVIOUS
  <1> HIDE DEF R
  <1> SUFFICES ASSUME R # {} PROVE FALSE
    BY <1>1
  <1>2. PICK n \in R : \A m \in R : n <= m
    BY <1>1, LeastMember
  <1>3. n \in Nat /\ n # 0 /\ n - 1 \in Nat /\ (n - 1) + 1 = n /\ n - 1 \notin R
    BY <1>1, <1>2
  <1> QED BY <1>1, <1>2, <1>3

\* f has the powers of a base up to the n-th.
HasPowers(f, base, n) == \A k \in 0..n : f[k] = IF k = 0 THEN 1 ELSE base * f[k - 1]

\* As many powers as are asked for can be listed.
LEMMA PowersExist == ASSUME NEW base, NEW n \in Nat PROVE \E f : HasPowers(f, base, n)
  <1> DEFINE T == {m \in Nat : \E f : HasPowers(f, base, m)}
  <1>1. \A m \in Nat : m \in T <=> \E f : HasPowers(f, base, m)
    OBVIOUS
  <1> HIDE DEF T
  <1>2. 0 \in T
    <2> DEFINE e == [k \in 0..0 |-> 1]
    <2>1. HasPowers(e, base, 0)
      BY DEF HasPowers
    <2> QED BY <1>1, <2>1
  <1>3. ASSUME NEW m \in Nat, m \in T PROVE m + 1 \in T
    <2>1. PICK f : HasPowers(f, base, m)
      BY <1>1, <1>3
    <2> DEFINE last == base * f[m]
               g == [k \in 0..(m + 1) |-> IF k = m + 1 THEN last ELSE f[k]]
    <2> HIDE DEF last
    <2>2. ASSUME NEW k \in 0..(m + 1)
          PROVE  g[k] = IF k = 0 THEN 1 ELSE base * g[k - 1]
      <3>1. k # 0 => k - 1 \in 0..(m + 1) /\ k - 1 # m + 1
        OBVIOUS
      <3>2. k # 0 => g[k - 1] = f[k - 1]
        BY <3>1
      <3>3. CASE k = m + 1
        <4>1. g[k] = last /\ k # 0 /\ k - 1 = m
          BY <3>3
        <4> HIDE DEF g
        <4> QED BY <3>2, <4>1 DEF last
      <3>4. CASE k # m + 1
        <4>1. k \in 0..m /\ g[k] = f[k]
          BY <3>4
        <4>2. f[k] = IF k = 0 THEN 1 ELSE base * f[k - 1]
          BY <2>1, <4>1 DEF HasPowers
        <4> HIDE DEF g
        <4> QED BY <3>2, <4>1, <4>2
      <3> QED BY <3>3, <3>4
    <2>3. HasPowers(g, base, m + 1)
      BY <2>2 DEF HasPowers
    <2> HIDE DEF g
    <2> QED BY <1>1, <2>3
  <1> QED BY <1>1, <1>2, <1>3, Inductive

\* Two lists of powers agree as far as the shorter one goes.
LEMMA PowersAgree ==
    ASSUME NEW base, NEW m \in Nat, NEW n \in Nat, m <= n,
           NEW f, HasPowers(f, base, m), NEW g, HasPowers(g, base, n)
    PROVE  f[m] = g[m]
  <1> DEFINE T == {k \in Nat : k <= m => f[k] = g[k]}
  <1>1. \A k \in Nat : k \in T <=> (k <= m => f[k] = g[k])
    OBVIOUS
  <1> HIDE DEF T
  <1>2. /\ 0 \in 0..m /\ 0 \in 0..n
        /\ \A k \in Nat : k + 1 <= m => /\ k + 1 \in 0..m /\ k + 1 \in 0..n /\ k + 1 # 0
                                         /\ (k + 1) - 1 = k /\ k <= m
    OBVIOUS
  <1>3. f[0] = 1 /\ g[0] = 1
    BY <1>2 DEF HasPowers
  <1>4. 0 \in T
    BY <1>1, <1>3
  <1>5. ASSUME NEW k \in Nat, k \in T PROVE k + 1 \in T
    <2>1. ASSUME k + 1 <= m PROVE f[k + 1] = g[k + 1]
      <3>1. f[k + 1] = base * f[k] /\ g[k + 1] = base * g[k] /\ k <= m
        BY <1>2, <2>1 DEF HasPowers
      <3> QED BY <1>1, <1>5, <3>1
    <2>2. k + 1 \in Nat
      OBVIOUS
    <2> QED BY <1>1, <2>1, <2>2
  <1>6. \A k \in Nat : k \in T
    BY <1>4, <1>5, Inductive
  <1> QED BY <1>1, <1>6

\* So the recursive function has the values its definition says.
LEMMA PowerUnfolds ==
    ASSUME NEW base
    PROVE  Power(base, 0) = 1 /\ \A n \in Nat : Power(base, n + 1) = base * Power(base, n)
  <1> DEFINE D(f) == [k \in Nat |-> IF k = 0 THEN 1 ELSE base * f[k - 1]]
             power == CHOOSE f : f = D(f)
             list == [n \in Nat |-> CHOOSE f : HasPowers(f, base, n)]
             h == [n \in Nat |-> list[n][n]]
  <1>1. \A n \in Nat : Power(base, n) = power[n]
    BY DEF Power
  <1>2. \A n \in Nat : HasPowers(list[n], base, n)
    BY PowersExist
  <1> HIDE DEF list
  <1>3. ASSUME NEW n \in Nat PROVE h[n] = IF n = 0 THEN 1 ELSE base * h[n - 1]
    <2>1. n \in 0..n /\ (n # 0 => n - 1 \in Nat /\ n - 1 <= n)
      OBVIOUS
    <2>2. list[n][n] = IF n = 0 THEN 1 ELSE base * list[n][n - 1]
      BY <1>2, <2>1 DEF HasPowers
    <2>3. n # 0 => list[n][n - 1] = list[n - 1][n - 1]
      BY <1>2, <2>1, PowersAgree
    <2>4. h[n] = list[n][n] /\ (n # 0 => h[n - 1] = list[n - 1][n - 1])
      OBVIOUS
    <2> HIDE DEF h
    <2> QED BY <2>2, <2>3, <2>4
  <1>4. h = D(h)
    BY <1>3
  <1> HIDE DEF h
  <1>5. power = D(power)
    <2> HIDE DEF D
    <2> QED BY <1>4
  <1> HIDE DEF power
  <1>6. power[0] = 1 /\ \A n \in Nat : power[n + 1] = base * power[n]
    <2>1. \A n \in Nat : n + 1 \in Nat /\ n + 1 # 0 /\ (n + 1) - 1 = n
      OBVIOUS
    <2> QED BY <1>5, <2>1
  <1>7. \A n \in Nat : n + 1 \in Nat
    OBVIOUS
  <1> QED BY <1>1, <1>6, <1>7

LEMMA PowerIsPositive == ASSUME NEW base \in Nat \ {0}, NEW n \in Nat PROVE Power(base, n) \in Nat \ {0}
  <1> DEFINE T == {k \in Nat : Power(base, k) \in Nat \ {0}}
  <1>1. \A k \in Nat : k \in T <=> Power(base, k) \in Nat \ {0}
    OBVIOUS
  <1> HIDE DEF T
  <1>2. 0 \in T
    BY <1>1, PowerUnfolds
  <1>3. ASSUME NEW k \in Nat, k \in T PROVE k + 1 \in T
    <2>1. Power(base, k + 1) = base * Power(base, k) /\ Power(base, k) \in Nat \ {0}
      BY <1>1, <1>3, PowerUnfolds
    <2>2. \A b \in Nat \ {0}, p \in Nat \ {0} : b * p \in Nat \ {0}
      OBVIOUS
    <2> QED BY <1>1, <2>1, <2>2
  <1> QED BY <1>1, <1>2, <1>3, Inductive

LEMMA PowerOfSum ==
    ASSUME NEW base \in Nat \ {0}, NEW m \in Nat, NEW n \in Nat
    PROVE  Power(base, m + n) = Power(base, m) * Power(base, n)
  <1> DEFINE T == {k \in Nat : Power(base, m + k) = Power(base, m) * Power(base, k)}
  <1>1. \A k \in Nat : k \in T <=> Power(base, m + k) = Power(base, m) * Power(base, k)
    OBVIOUS
  <1> HIDE DEF T
  <1>2. 0 \in T
    <2>1. m + 0 = m /\ \A p \in Nat : p * 1 = p
      OBVIOUS
    <2> QED BY <1>1, <2>1, PowerUnfolds, PowerIsPositive
  <1>3. ASSUME NEW k \in Nat, k \in T PROVE k + 1 \in T
    <2>1. m + k \in Nat /\ m + (k + 1) = (m + k) + 1
      OBVIOUS
    <2>2. Power(base, m + (k + 1)) = base * Power(base, m + k) /\ Power(base, k + 1) = base * Power(base, k)
      BY <2>1, PowerUnfolds
    <2>3. Power(base, m + k) = Power(base, m) * Power(base, k)
      BY <1>1, <1>3
    <2>4. Power(base, m) \in Nat /\ Power(base, k) \in Nat
      BY PowerIsPositive
    <2>5. \A b, p, q \in Nat : b * (p * q) = p * (b * q)
      OBVIOUS
    <2>6. base * (Power(base, m) * Power(base, k)) = Power(base, m) * (base * Power(base, k))
      BY <2>4, <2>5
    <2> QED BY <1>1, <2>2, <2>3, <2>6
  <1> QED BY <1>1, <1>2, <1>3, Inductive

LEMMA PowerOfOne == ASSUME NEW base \in Nat PROVE Power(base, 1) = base
  <1>1. 0 \in Nat /\ 0 + 1 = 1 /\ base * 1 = base
    OBVIOUS
  <1> QED BY <1>1, PowerUnfolds

\* A digit to the base 16 has four bits.
LEMMA PowerOfSixteen == ASSUME NEW n \in Nat PROVE Power(16, n) = Power(2, 4 * n)
  <1> DEFINE T == {k \in Nat : Power(16, k) = Power(2, 4 * k)}
  <1>1. \A k \in Nat : k \in T <=> Power(16, k) = Power(2, 4 * k)
    OBVIOUS
  <1> HIDE DEF T
  <1>2. 0 \in T
    BY <1>1, PowerUnfolds
  <1>3. ASSUME NEW k \in Nat, k \in T PROVE k + 1 \in T
    <2> DEFINE e == 4 * k
               P(x) == Power(2, x)
    <2>1. e \in Nat /\ 4 * (k + 1) = ((e + 1) + 1 + 1) + 1
      OBVIOUS
    <2>2. /\ P(e + 1) = 2 * P(e) /\ P((e + 1) + 1) = 2 * P(e + 1)
          /\ P((e + 1) + 1 + 1) = 2 * P((e + 1) + 1) /\ P(((e + 1) + 1 + 1) + 1) = 2 * P((e + 1) + 1 + 1)
      <3> HIDE DEF e
      <3>1. e + 1 \in Nat /\ (e + 1) + 1 \in Nat /\ (e + 1) + 1 + 1 \in Nat
        BY <2>1
      <3> QED BY <2>1, <3>1, PowerUnfolds
    <2>3. P(e) \in Nat
      BY <2>1, PowerIsPositive
    <2>4. Power(16, k) = P(e) /\ Power(16, k + 1) = 16 * Power(16, k)
      BY <1>1, <1>3, PowerUnfolds
    <2>5. \A p, p1, p2, p3, p4 \in Int : p1 = 2 * p /\ p2 = 2 * p1 /\ p3 = 2 * p2 /\ p4 = 2 * p3 => p4 = 16 * p
      OBVIOUS
    <2>6. P(4 * (k + 1)) = 16 * P(e)
      <3> HIDE DEF e
      <3>1. P(e + 1) \in Int /\ P((e + 1) + 1) \in Int /\ P((e + 1) + 1 + 1) \in Int /\ P(((e + 1) + 1 + 1) + 1) \in Int
        BY <2>1, PowerIsPositive
      <3>2. P(((e + 1) + 1 + 1) + 1) = 16 * P(e)
        <4> HIDE DEF P
        <4> QED BY <2>2, <2>3, <3>1
      <3> QED BY <2>1, <3>2
    <2> QED BY <1>1, <2>4, <2>6
  <1> QED BY <1>1, <1>2, <1>3, Inductive

LEMMA PowerGrows ==
    ASSUME NEW base \in Nat \ {0}, NEW m \in Nat, NEW n \in Nat, m <= n
    PROVE  Power(base, m) <= Power(base, n)
  <1>1. n - m \in Nat /\ m + (n - m) = n
    OBVIOUS
  <1>2. Power(base, n) = Power(base, m) * Power(base, n - m)
    BY <1>1, PowerOfSum
  <1>3. Power(base, m) \in Nat \ {0} /\ Power(base, n - m) \in Nat \ {0}
    BY <1>1, PowerIsPositive
  <1>4. \A p, q \in Nat \ {0} : p <= p * q
    OBVIOUS
  <1> QED BY <1>2, <1>3, <1>4

\* The powers of ten that are met in the proofs.
LEMMA SmallPowers ==
    /\ Power(10, 0) = 1 /\ Power(10, 1) = 10 /\ Power(10, 2) = 100
    /\ Power(10, 15) \in Nat /\ 1000 <= Power(10, 15)
    /\ Power(10, Places) \in Nat \ {0}
    /\ One = 10 * Power(10, Places) /\ Roundoff \in Nat /\ 10 * Roundoff <= Power(10, Places)
  <1>1. Power(10, 0) = 1 /\ Power(10, 1) = 10
    BY PowerUnfolds, PowerOfOne
  <1>2. Power(10, 2) = 100
    <2>1. 1 \in Nat /\ 1 + 1 = 2
      OBVIOUS
    <2>2. Power(10, 2) = 10 * Power(10, 1)
      BY <2>1, PowerUnfolds
    <2> QED BY <1>1, <2>2
  <1>3. Power(10, 15) \in Nat /\ 1000 <= Power(10, 15)
    <2>1. 2 \in Nat /\ 2 + 1 = 3 /\ 3 \in Nat /\ 15 \in Nat /\ 3 <= 15 /\ 10 \in Nat \ {0}
      OBVIOUS
    <2>2. Power(10, 15) \in Nat \ {0}
      BY <2>1, PowerIsPositive
    <2>3. Power(10, 3) = 10 * Power(10, 2)
      BY <2>1, PowerUnfolds
    <2>4. Power(10, 3) <= Power(10, 15)
      BY <2>1, PowerGrows
    <2> QED BY <1>2, <2>2, <2>3, <2>4
  <1>4. /\ Power(10, Places) \in Nat \ {0} /\ One = 10 * Power(10, Places)
        /\ Roundoff \in Nat /\ 10 * Roundoff <= Power(10, Places)
    <2>1. Places \in Nat /\ Roundoff \in Nat /\ 100 * Roundoff <= One
      BY FormatAssumption
    <2>2. One = 10 * Power(10, Places)
      BY <2>1, PowerUnfolds DEF One
    <2>3. Power(10, Places) \in Nat \ {0}
      BY <2>1, PowerIsPositive
    <2> QED BY <2>1, <2>2, <2>3
  <1> QED BY <1>1, <1>2, <1>3, <1>4

\* A value of at most 32 bits has at most fifteen digits.
LEMMA WidthFits ==
    ASSUME NEW bits \in 1..32, NEW v \in -Power(2, bits - 1)..(Power(2, bits) - 1)
    PROVE  v \in Int /\ v < Power(10, 15) /\ -v < Power(10, 15)
  <1> DEFINE p == Power(2, bits - 1)
             q == Power(2, bits)
             w == Power(2, 32)
             t == Power(10, 15)
  <1>1. /\ 2 \in Nat \ {0} /\ 32 \in Nat /\ bits \in Nat /\ bits - 1 \in Nat
        /\ bits <= 32 /\ bits - 1 <= 32
    OBVIOUS
  <1>2. p \in Nat \ {0} /\ q \in Nat \ {0}
    BY <1>1, PowerIsPositive
  <1>3. p <= w /\ q <= w
    BY <1>1, PowerGrows
  <1>4. w \in Nat /\ t \in Nat /\ w < t
    <2> DEFINE b8 == Power(2, 8)
               b16 == Power(2, 16)
               d3 == Power(10, 3)
               d6 == Power(10, 6)
               d12 == Power(10, 12)
    <2>1. b8 \in Nat /\ b8 <= 1000
      <3>1. /\ Power(2, 0) = 1 /\ Power(2, 0 + 1) = 2 * Power(2, 0)
            /\ Power(2, 1 + 1) = 2 * Power(2, 1) /\ Power(2, 2 + 1) = 2 * Power(2, 2)
            /\ Power(2, 3 + 1) = 2 * Power(2, 3) /\ Power(2, 4 + 1) = 2 * Power(2, 4)
            /\ Power(2, 5 + 1) = 2 * Power(2, 5) /\ Power(2, 6 + 1) = 2 * Power(2, 6)
            /\ Power(2, 7 + 1) = 2 * Power(2, 7)
        BY PowerUnfolds
      <3> QED BY <3>1
    <2>2. d3 = 1000
      <3>1. /\ Power(10, 0) = 1 /\ Power(10, 0 + 1) = 10 * Power(10, 0)
            /\ Power(10, 1 + 1) = 10 * Power(10, 1) /\ Power(10, 2 + 1) = 10 * Power(10, 2)
        BY PowerUnfolds
      <3> QED BY <3>1
    <2>3. /\ Power(2, 8 + 8) = Power(2, 8) * Power(2, 8) /\ Power(2, 16 + 16) = Power(2, 16) * Power(2, 16)
          /\ Power(10, 3 + 3) = Power(10, 3) * Power(10, 3) /\ Power(10, 6 + 6) = Power(10, 6) * Power(10, 6)
          /\ Power(10, 12 + 3) = Power(10, 12) * Power(10, 3)
      BY PowerOfSum
    <2>4. /\ 8 + 8 = 16 /\ 16 + 16 = 32 /\ 3 + 3 = 6 /\ 6 + 6 = 12 /\ 12 + 3 = 15
      OBVIOUS
    <2>5. b16 = b8 * b8 /\ w = b16 * b16 /\ d6 = d3 * d3 /\ d12 = d6 * d6 /\ t = d12 * d3
      BY <2>3, <2>4
    <2>6. d12 \in Nat \ {0}
      BY PowerIsPositive
    <2> HIDE DEF b8, b16, d3, d6, d12, w, t
    <2>7. \A x, y \in Nat : x <= y => x * x \in Nat /\ y * y \in Nat /\ x * x <= y * y
      <3> SUFFICES ASSUME NEW x \in Nat, NEW y \in Nat, x <= y
                   PROVE  x * x \in Nat /\ y * y \in Nat /\ x * x <= y * y
        OBVIOUS
      <3>1. x * x <= x * y /\ x * y <= y * y
        OBVIOUS
      <3> QED BY <3>1
    <2>8. d3 \in Nat /\ b8 <= d3
      BY <2>1, <2>2
    <2>9. b16 \in Nat /\ d6 \in Nat /\ b16 <= d6
      BY <2>1, <2>5, <2>7, <2>8
    <2>10. w \in Nat /\ w <= d12
      BY <2>5, <2>7, <2>9
    <2>11. t = d12 * 1000
      BY <2>2, <2>5
    <2> QED BY <2>6, <2>10, <2>11
  <1>6. v \in -p..(q - 1)
    OBVIOUS
  <1> HIDE DEF p, q, t, w
  <1>7. v \in Int /\ v < t /\ -v < t
    BY <1>2, <1>3, <1>4, <1>6
  <1> QED BY <1>7 DEF t

-----------------------------------------------------------------------------
(* Digits of a number *)

\* What is known of a division.
LEMMA Division ==
    ASSUME NEW v \in Nat, NEW b \in Nat \ {0}
    PROVE  v = b * (v \div b) + (v % b) /\ v % b \in 0..(b - 1) /\ v \div b \in Nat
  OBVIOUS

LEMMA Quotient ==
    ASSUME NEW v \in Nat, NEW b \in Nat \ {0}, NEW q \in Nat, NEW r \in 0..(b - 1), v = b * q + r
    PROVE  q = v \div b /\ r = v % b
  OBVIOUS

\* To divide twice is to divide by the product.
LEMMA QuotientTwice ==
    ASSUME NEW v \in Nat, NEW a \in Nat \ {0}, NEW b \in Nat \ {0}
    PROVE  (v \div a) \div b = v \div (b * a)
  <1> DEFINE q == v \div a
             r == v % a
             p == q \div b
             s == q % b
  <1>1. /\ v = a * q + r /\ r \in 0..(a - 1) /\ q \in Nat
        /\ q = b * p + s /\ s \in 0..(b - 1) /\ p \in Nat
    BY Division
  <1> HIDE DEF q, r, p, s
  <1> DEFINE t == a * s + r
  <1>2. v = (b * a) * p + t
    <2>1. a * (b * p + s) = (b * a) * p + a * s
      BY <1>1
    <2>2. v = a * (b * p + s) + r
      BY <1>1
    <2> HIDE DEF q
    <2> QED BY <1>1, <2>1, <2>2
  <1>3. t \in 0..(b * a - 1)
    <2>1. a * s <= a * (b - 1) /\ a * s >= 0
      BY <1>1
    <2>2. a * (b - 1) = b * a - a
      OBVIOUS
    <2> DEFINE x == a * s
               y == b * a
    <2>3. x \in Int /\ y \in Int /\ x <= y - a /\ x >= 0
      BY <1>1, <2>1, <2>2
    <2> HIDE DEF x, y
    <2>4. x + r \in 0..(y - 1)
      BY <1>1, <2>3
    <2> QED BY <2>4 DEF x, y
  <1>4. b * a \in Nat \ {0}
    OBVIOUS
  <1> HIDE DEF t
  <1>5. p = v \div (b * a)
    BY <1>1, <1>2, <1>3, <1>4, Quotient
  <1> QED BY <1>5 DEF p, q

\* Different digits are different characters.
LEMMA DigitsDiffer == \A c, d \in 0..15 : Digit(c) = Digit(d) => c = d
  BY DEF Digit, Digits

\* f has the numbers that the digits at the front of a text stand for.
Counts(f, text, base) ==
    /\ f[0] = 0
    /\ \A i \in 1..Len(text) :
           \E d \in 0..(base - 1) : Digit(d) = text[i] /\ f[i] = f[i - 1] * base + d

\* So reading them gives that number.
LEMMA CountsRead ==
    ASSUME NEW text, IsText(text), NEW base \in 1..16, NEW g, Counts(g, text, base)
    PROVE  ReadDigits(text, base) = g[Len(text)]
  <1> DEFINE n == Len(text)
             V(i) == CHOOSE d \in 0..(base - 1) : Digit(d) = text[i]
             D(f) == [i \in 0..n |-> IF i = 0 THEN 0 ELSE f[i - 1] * base + V(i)]
             f == CHOOSE f : f = D(f)
  <1>1. n \in Nat
    BY TextLength
  <1>2. ReadDigits(text, base) = f[n]
    BY DEF ReadDigits
  <1>3. ASSUME NEW i \in 1..n PROVE g[i] = g[i - 1] * base + V(i)
    <2>1. PICK d \in 0..(base - 1) : Digit(d) = text[i] /\ g[i] = g[i - 1] * base + d
      BY DEF Counts
    <2>2. \A c \in 0..(base - 1) : c \in 0..15
      OBVIOUS
    <2>3. \A c \in 0..(base - 1) : Digit(c) = text[i] => c = d
      BY <2>1, <2>2, DigitsDiffer
    <2>4. V(i) = d
      BY <2>1, <2>3
    <2> QED BY <2>1, <2>4
  <1>4. f = D(f)
    <2> DEFINE v == [i \in 1..n |-> V(i)]
    <2> HIDE DEF n, V
    <2>1. \A i \in 0..n : i # 0 => v[i] = V(i)
      BY <1>1
    <2> HIDE DEF v
    <2>2. PICK h : h = [i \in 0..n |-> IF i = 0 THEN 0 ELSE h[i - 1] * base + v[i]]
      BY <1>1, ReadingExists, ZenonT(30)
    <2>3. h = D(h)
      BY <2>1, <2>2
    <2> HIDE DEF D
    <2> QED BY <2>3
  <1> HIDE DEF f
  <1>5. f[0] = 0 /\ \A i \in 1..n : f[i] = f[i - 1] * base + V(i)
    <2> HIDE DEF n, V
    <2>1. 0 \in 0..n /\ \A i \in 1..n : i \in 0..n /\ i # 0
      BY <1>1
    <2> QED BY <1>4, <2>1
  <1>6. g[0] = 0
    BY DEF Counts
  <1> HIDE DEF n, V, D
  <1> DEFINE T == {k \in Nat : k <= n => f[k] = g[k]}
  <1>7. \A k \in Nat : k \in T <=> (k <= n => f[k] = g[k])
    OBVIOUS
  <1> HIDE DEF T
  <1>8. 0 \in T
    BY <1>5, <1>6, <1>7
  <1>9. ASSUME NEW k \in Nat, k \in T PROVE k + 1 \in T
    <2>1. ASSUME k + 1 <= n PROVE f[k + 1] = g[k + 1]
      <3>1. k + 1 \in 1..n /\ (k + 1) - 1 = k /\ k <= n
        BY <1>1, <2>1
      <3>2. f[k + 1] = f[k] * base + V(k + 1) /\ g[k + 1] = g[k] * base + V(k + 1)
        BY <1>3, <1>5, <3>1
      <3> QED BY <1>7, <1>9, <3>1, <3>2
    <2>2. k + 1 \in Nat
      OBVIOUS
    <2> QED BY <1>7, <2>1, <2>2
  <1>10. n \in T
    BY <1>1, <1>8, <1>9, Inductive
  <1> QED BY <1>1, <1>2, <1>7, <1>10 DEF n

\* One more of the digits of a number.
LEMMA NextDigit ==
    ASSUME NEW v \in Nat, NEW base \in 1..16, NEW k \in Nat
    PROVE  /\ v \div Power(base, k) = (v \div Power(base, k + 1)) * base + ((v \div Power(base, k)) % base)
           /\ (v \div Power(base, k)) % base \in 0..(base - 1)
           /\ v \div Power(base, k) \in Nat
  <1> DEFINE p == Power(base, k)
             q == v \div p
             r == q \div base
  <1>1. base \in Nat \ {0} /\ p \in Nat \ {0} /\ Power(base, k + 1) = base * p
    BY PowerIsPositive, PowerUnfolds
  <1> HIDE DEF p
  <1>2. r = v \div (base * p) /\ q \in Nat
    BY <1>1, QuotientTwice, Division
  <1> HIDE DEF q
  <1>3. q = base * r + (q % base) /\ q % base \in 0..(base - 1) /\ r \in Nat
    BY <1>1, <1>2, Division
  <1> HIDE DEF r
  <1>4. base * r = r * base
    BY <1>3
  <1>5. q = (v \div Power(base, k + 1)) * base + (q % base)
    BY <1>1, <1>2, <1>3, <1>4
  <1> QED BY <1>2, <1>3, <1>5 DEF p, q

\* Each character is a digit of the number.
LEMMA PaddedCharacters ==
    ASSUME NEW v, NEW base, NEW n \in Nat
    PROVE  /\ IsText(Padded(v, base, n)) /\ Len(Padded(v, base, n)) = n
           /\ \A i \in 1..n : Padded(v, base, n)[i] = Digit((v \div Power(base, n - i)) % base)
  <1> DEFINE D(i) == Digit((v \div Power(base, n - i)) % base)
  <1>1. Padded(v, base, n) = [i \in 1..n |-> D(i)]
    BY DEF Padded
  <1> HIDE DEF D
  <1>2. \A i \in 1..n : Padded(v, base, n)[i] = D(i)
    BY <1>1
  <1>3. Len(Padded(v, base, n)) = n
    BY <1>1
  <1> QED BY <1>2, <1>3, PaddedIsText DEF D

LEMMA QuotientByOne == ASSUME NEW v \in Nat, NEW base PROVE v \div Power(base, 0) = v
  <1>1. v \div 1 = v
    OBVIOUS
  <1> QED BY <1>1, PowerUnfolds

\* A number is read back from its digits, if they are enough.
LEMMA PaddedReadsBack ==
    ASSUME NEW base \in 1..16, NEW n \in Nat, NEW v \in Nat, v < Power(base, n)
    PROVE  ReadDigits(Padded(v, base, n), base) = v
  <1> DEFINE text == Padded(v, base, n)
             f == [i \in 0..n |-> v \div Power(base, n - i)]
  <1>1. n - 0 = n /\ n - n = 0 /\ 0 \in 0..n /\ n \in 0..n
    OBVIOUS
  <1>2. f[0] = 0
    <2>1. Power(base, n) \in Nat \ {0}
      BY PowerIsPositive
    <2>2. \A p \in Nat \ {0} : v < p => v \div p = 0
      OBVIOUS
    <2>3. v \div Power(base, n) = 0
      BY <2>1, <2>2
    <2> QED BY <1>1, <2>3
  <1>3. f[n] = v
    BY <1>1, QuotientByOne
  <1>4. ASSUME NEW i \in 1..n
        PROVE  \E d \in 0..(base - 1) : Digit(d) = text[i] /\ f[i] = f[i - 1] * base + d
    <2> DEFINE k == n - i
    <2>1. k \in Nat /\ n - (i - 1) = k + 1 /\ i \in 0..n /\ i - 1 \in 0..n
      OBVIOUS
    <2>2. f[i] = v \div Power(base, k) /\ f[i - 1] = v \div Power(base, k + 1)
      BY <2>1
    <2>3. text[i] = Digit((v \div Power(base, k)) % base)
      BY PaddedCharacters
    <2> DEFINE d == (v \div Power(base, k)) % base
    <2> HIDE DEF k, f, text
    <2>4. d \in 0..(base - 1) /\ v \div Power(base, k) = (v \div Power(base, k + 1)) * base + d
      BY <2>1, NextDigit
    <2> HIDE DEF d
    <2>5. f[i] = f[i - 1] * base + d
      BY <2>2, <2>4
    <2> QED BY <2>3, <2>4, <2>5 DEF d
  <1>5. IsText(text) /\ Len(text) = n
    BY PaddedCharacters
  <1> HIDE DEF text, f
  <1>6. Counts(f, text, base)
    BY <1>2, <1>4, <1>5 DEF Counts
  <1> QED BY <1>3, <1>5, <1>6, CountsRead DEF text

-----------------------------------------------------------------------------
(* Integrals *)

\* The text of a number that has at most fifteen digits.
LEMMA DecimalCharacters ==
    ASSUME NEW v \in Nat, v < Power(10, 15)
    PROVE  /\ IsText(Decimal(v)) /\ Len(Decimal(v)) = Length(v) /\ Length(v) \in 1..15
           /\ v < Power(10, Length(v))
           /\ \A i \in 1..Length(v) : /\ Decimal(v)[i] = Digit((v \div Power(10, Length(v) - i)) % 10)
                                      /\ (v \div Power(10, Length(v) - i)) % 10 \in 0..9
                                      /\ IsDigit(Decimal(v)[i])
  <1>1. Length(v) \in 1..15 /\ Length(v) \in Nat /\ Fits(v, Length(v))
    BY LengthIsLeast
  <1>2. v < Power(10, Length(v))
    BY <1>1 DEF Fits
  <1>3. /\ IsText(Decimal(v)) /\ Len(Decimal(v)) = Length(v)
        /\ \A i \in 1..Length(v) : Decimal(v)[i] = Digit((v \div Power(10, Length(v) - i)) % 10)
    BY <1>1, PaddedCharacters DEF Decimal
  <1>4. ASSUME NEW i \in 1..Length(v) PROVE (v \div Power(10, Length(v) - i)) % 10 \in 0..9
    <2>1. Length(v) - i \in Nat /\ 10 \in 1..16 /\ 10 - 1 = 9
      BY <1>1
    <2> QED BY <2>1, NextDigit
  <1>5. \A i \in 1..Length(v) : IsDigit(Decimal(v)[i])
    BY <1>3, <1>4 DEF IsDigit
  <1> QED BY <1>1, <1>2, <1>3, <1>4, <1>5

\* What stands between the digits of a number is no digit.
LEMMA NoSuchDigit == ~IsDigit("-") /\ ~IsDigit(".") /\ ~IsDigit("e")
  <1>1. \A c \in {"-", ".", "e"} : c \notin {"0", "1", "2", "3", "4", "5", "6", "7", "8", "9"}
    OBVIOUS
  <1> QED BY <1>1, DigitsAreTheTen DEF IsDigit

\* What is behind the minus.
LEMMA TailJoined == ASSUME NEW x, NEW s, IsText(s) PROVE Tail(<<x>> \o s) = s /\ (<<x>> \o s)[1] = x /\ <<x>> \o s # <<>>
  <1>1. PICK S : s \in Seq(S)
    BY DEF IsText
  <1>2. s \in Seq(S \cup {x}) /\ <<x>> \in Seq(S \cup {x})
    BY <1>1, SeqMonotonic
  <1> DEFINE t == <<x>> \o s
             R == S \cup {x}
  <1> HIDE DEF R
  <1>3. t \in Seq(R) /\ Len(t) = 1 + Len(s) /\ Len(s) \in Nat /\ t[1] = x
        /\ \A i \in 1..Len(s) : t[i + 1] = s[i]
    BY <1>2 DEF R
  <1> HIDE DEF t
  <1>4. Tail(t) \in Seq(R) /\ Len(Tail(t)) = Len(s) /\ \A i \in 1..Len(s) : Tail(t)[i] = t[i + 1]
    BY <1>3
  <1>5. Tail(t) = s
    BY <1>2, <1>3, <1>4, SeqEqual DEF R
  <1>6. t # <<>>
    BY <1>3
  <1> QED BY <1>3, <1>5, <1>6 DEF t

\* A number of at most fifteen digits, behind a minus or not.
LEMMA DecimalReadsBack ==
    ASSUME NEW v \in Nat, v < Power(10, 15)
    PROVE  /\ ReadDigits(Decimal(v), 10) = v
           /\ ReadSigned(Decimal(v)) = v
           /\ ReadSigned(<<"-">> \o Decimal(v)) = -v
  <1>1. 10 \in 1..16 /\ Length(v) \in Nat /\ v < Power(10, Length(v))
    BY DecimalCharacters
  <1>2. ReadDigits(Decimal(v), 10) = v
    BY <1>1, PaddedReadsBack DEF Decimal
  <1>3. Decimal(v)[1] # "-"
    <2>1. 1 \in 1..Length(v)
      BY DecimalCharacters
    <2> QED BY <2>1, DecimalCharacters, NoSuchDigit
  <1>4. ReadSigned(Decimal(v)) = v
    BY <1>2, <1>3 DEF ReadSigned
  <1>5. ReadSigned(<<"-">> \o Decimal(v)) = -v
    BY <1>2, DecimalCharacters, TailJoined DEF ReadSigned
  <1> QED BY <1>2, <1>4, <1>5

\* What is behind "0x".
LEMMA BehindPrefix ==
    ASSUME NEW x, NEW y, NEW s, IsText(s)
    PROVE  SubSeq(<<x, y>> \o s, 3, 2 + Len(s)) = s
  <1> DEFINE t == <<x, y>> \o s
             u == SubSeq(t, 3, 2 + Len(s))
  <1>1. Len(s) \in Nat
    BY TextLength
  <1>2. IsText(<<x, y>>) /\ Len(<<x, y>>) = 2
    BY Short
  <1>3. \A i \in 1..Len(s) : t[i + 2] = s[i]
    <2>1. \A i \in 1..(2 + Len(s)) : t[i] = IF i <= 2 THEN <<x, y>>[i] ELSE s[i - 2]
      BY <1>2, Joining
    <2>2. \A i \in 1..Len(s) : i + 2 \in 1..(2 + Len(s)) /\ ~ (i + 2 <= 2) /\ (i + 2) - 2 = i
      BY <1>1
    <2> HIDE DEF t
    <2> QED BY <2>1, <2>2
  <1> HIDE DEF t
  <1>4. IsText(u) /\ Len(u) = Len(s)
    <2>1. 3 \in Int /\ 2 + Len(s) \in Int /\ (3 <= 2 + Len(s) => (2 + Len(s)) - 3 + 1 = Len(s))
          /\ (~ (3 <= 2 + Len(s)) => Len(s) = 0)
      BY <1>1
    <2> QED BY <2>1, Part
  <1>5. \A i \in 1..Len(s) : u[i] = s[i]
    <2>1. \A i \in 1..Len(s) : i \in 1..((2 + Len(s)) - 3 + 1) /\ 3 + i - 1 = i + 2
      BY <1>1
    <2>2. 3 \in Int /\ 2 + Len(s) \in Int
      BY <1>1
    <2>3. \A i \in 1..Len(s) : u[i] = t[3 + i - 1]
      BY <2>1, <2>2, Part
    <2> HIDE DEF u
    <2> QED BY <1>3, <2>1, <2>3
  <1> HIDE DEF u
  <1>6. u = s
    BY <1>4, <1>5, SameText
  <1> QED BY <1>6 DEF u, t

\* An integral of at most fifteen digits, of whatever width.
LEMMA IntegersReadBack ==
    ASSUME NEW a, a.bits \in Nat, a.bits % 8 = 0, a.value \in Int,
           a.value < Power(10, 15), -a.value < Power(10, 15)
    PROVE  IntReadsBack(a)
  <1>1. ASSUME a.value # -Power(2, a.bits - 1) PROVE ReadSigned(IntText(a, <<>>)) = a.value
    <2>1. CASE a.value >= 0
      <3>1. IntText(a, <<>>) = Decimal(a.value) /\ a.value \in Nat
        BY <2>1 DEF IntText
      <3> QED BY <3>1, DecimalReadsBack
    <2>2. CASE a.value < 0
      <3>1. IntText(a, <<>>) = <<"-">> \o Decimal(-a.value)
        BY <1>1, <2>2 DEF IntText
      <3>2. -a.value \in Nat /\ -(-a.value) = a.value
        BY <2>2
      <3> QED BY <3>1, <3>2, DecimalReadsBack
    <2> QED BY <2>1, <2>2
  <1>2. ReadDigits(SubSeq(IntText(a, <<"x">>), 3, 2 + a.bits \div 4), 16) = a.value % Power(2, a.bits)
    <2> DEFINE n == a.bits \div 4
               v == a.value % Power(2, a.bits)
               s == Padded(v, 16, n)
    <2>1. n \in Nat /\ a.bits = 4 * n /\ 16 \in 1..16
      OBVIOUS
    <2>2. v \in Nat /\ v < Power(2, a.bits)
      <3>1. Power(2, a.bits) \in Nat \ {0}
        BY PowerIsPositive
      <3>2. \A w \in Int, p \in Nat \ {0} : w % p \in Nat /\ w % p < p
        OBVIOUS
      <3> QED BY <3>1, <3>2
    <2>3. IntText(a, <<"x">>) = <<"0", "x">> \o s
      BY DEF IntText
    <2> HIDE DEF n, v
    <2>4. v < Power(16, n)
      BY <2>1, <2>2, PowerOfSixteen
    <2>5. IsText(s) /\ Len(s) = n
      BY <2>1, PaddedCharacters
    <2>6. ReadDigits(s, 16) = v
      BY <2>1, <2>2, <2>4, PaddedReadsBack
    <2> HIDE DEF s
    <2>7. SubSeq(<<"0", "x">> \o s, 3, 2 + n) = s
      BY <2>5, BehindPrefix
    <2> QED BY <2>3, <2>6, <2>7 DEF n, v
  <1> QED BY <1>1, <1>2 DEF IntReadsBack

-----------------------------------------------------------------------------
(* The parts of a float *)

\* A value on its way through normalizeFloat.
Values == [sig : Int, decade : Int, exponent : Int]

\* A float as IsArgument has it, and the value normalizeFloat begins with.
IsFloat(a) == /\ a.decade \in -45..38
              /\ a.sig = 0 \/ a.sig \in One..(10 * One - 1)
              /\ a.casts \in [Steps -> -Roundoff..Roundoff]
AsIs(a) == [sig |-> a.sig, decade |-> a.decade, exponent |-> 0]

\* A value after at most n casts.
Within(v, a, n) == /\ v \in Values /\ v.decade + v.exponent = a.decade
                   /\ v.sig - a.sig \in -(n * Roundoff)..(n * Roundoff)

\* A large value when the step of k decades is done, and a small one: what is
\* left are fewer decades, unless a cast came out just below the next power.
UpTo(v, a, k, n)   == /\ Within(v, a, n) /\ Decade(v) >= 0
                      /\ v.decade < k \/ (v.decade = k /\ v.sig <= One + n * Roundoff)
DownTo(v, a, k, n) == /\ Within(v, a, n) /\ Decade(v) >= 1 - k
                      /\ v.decade < 1 \/ (v.decade = 1 /\ v.sig <= One + n * Roundoff)

LEMMA ShiftedFacts ==
    ASSUME NEW v \in Values, NEW k \in Int
    PROVE  LET w == Shifted(v, k)
           IN  /\ w \in Values /\ w.sig = v.sig /\ w.decade = v.decade - k /\ w.exponent = v.exponent + k
               /\ Decade(w) = Decade(v) - k
  <1> DEFINE w == Shifted(v, k)
  <1>1. w \in Values /\ w.sig = v.sig /\ w.decade = v.decade - k /\ w.exponent = v.exponent + k
    BY DEF Shifted, Values
  <1> HIDE DEF w
  <1>2. v.decade \in Int
    BY DEF Values
  <1>3. Decade(w) = Decade(v) - k
    BY <1>1, <1>2 DEF Decade
  <1> QED BY <1>1, <1>3 DEF w

\* A cast takes a value over one power of ten at most, and over none that is firm.
LEMMA CastFacts ==
    ASSUME NEW v \in Values, NEW off \in -Roundoff..Roundoff
    PROVE  LET w == Cast(v, off)
           IN  /\ w \in Values /\ w.decade = v.decade /\ w.exponent = v.exponent
               /\ w.sig - v.sig \in -Roundoff..Roundoff
               /\ Decade(w) >= Decade(v) - 1
               /\ Decade(v) \in Firm => Decade(w) >= Decade(v)
  <1> DEFINE w == Cast(v, off)
             least == IF v.sig >= 10 * One THEN 10 * One ELSE One
             stays == Decade(v) \in Firm /\ v.sig >= least /\ v.sig + off < least
  <1>1. /\ One \in Nat \ {0} /\ Roundoff \in Nat /\ 100 * Roundoff <= One
        /\ v.sig \in Int /\ v.decade \in Int /\ v.exponent \in Int
    BY SmallPowers DEF Values
  <1>2. least \in Int
    BY <1>1
  <1>3. w = [v EXCEPT !.sig = IF stays THEN least ELSE v.sig + off]
    BY DEF Cast
  <1> HIDE DEF w, stays
  <1>4. /\ w \in Values /\ w.decade = v.decade /\ w.exponent = v.exponent
        /\ w.sig = IF stays THEN least ELSE v.sig + off
    BY <1>1, <1>2, <1>3 DEF Values
  <1>5. w.sig - v.sig \in -Roundoff..Roundoff
    BY <1>1, <1>4 DEF stays
  <1>6. Decade(w) >= Decade(v) - 1
    BY <1>1, <1>4, <1>5 DEF Decade, Values
  <1>7. ASSUME Decade(v) \in Firm PROVE Decade(w) >= Decade(v)
    <2>1. v.sig >= least => w.sig >= least
      BY <1>1, <1>2, <1>4, <1>7 DEF stays
    <2> QED BY <1>1, <1>4, <2>1 DEF Decade, Values
  <1> QED BY <1>4, <1>5, <1>6, <1>7 DEF w

\* One more cast.
LEMMA OneMore ==
    ASSUME NEW a, a.sig \in Int, NEW n \in Nat, NEW v, Within(v, a, n),
           NEW w, w \in Values, w.decade + w.exponent = a.decade, w.sig - v.sig \in -Roundoff..Roundoff
    PROVE  Within(w, a, n + 1) /\ (n + 1) * Roundoff = n * Roundoff + Roundoff /\ n * Roundoff \in Nat
  <1> DEFINE x == n * Roundoff
  <1>1. Roundoff \in Nat /\ v.sig \in Int /\ w.sig \in Int
    BY SmallPowers DEF Within, Values
  <1>2. x \in Nat /\ (n + 1) * Roundoff = x + Roundoff
    BY <1>1
  <1>3. v.sig - a.sig \in -x..x
    BY DEF Within
  <1> HIDE DEF x
  <1>4. w.sig - a.sig \in -(x + Roundoff)..(x + Roundoff)
    BY <1>1, <1>2, <1>3
  <1> QED BY <1>2, <1>4 DEF Within, x

LEMMA LessStep ==
    ASSUME NEW a, IsFloat(a), a.sig # 0, NEW k \in Steps, NEW n \in Nat, NEW v, UpTo(v, a, 2 * k, n)
    PROVE  UpTo(Less(v, k, a.casts), a, k, n + 1)
  <1> DEFINE off == a.casts[k]
             u == Shifted(v, k)
             w == Cast(u, off)
             x == n * Roundoff
             y == (n + 1) * Roundoff
  <1>1. /\ off \in -Roundoff..Roundoff /\ k \in Nat \ {0} /\ a.sig \in Int /\ a.decade \in Int
        /\ One \in Nat \ {0} /\ Roundoff \in Nat
    BY SmallPowers DEF IsFloat, Steps
  <1>2. /\ Within(v, a, n) /\ Decade(v) >= 0 /\ v \in Values
        /\ v.sig \in Int /\ v.decade \in Int /\ v.exponent \in Int /\ v.decade + v.exponent = a.decade
        /\ v.decade < 2 * k \/ (v.decade = 2 * k /\ v.sig <= One + x)
    BY DEF UpTo, Within, Values
  <1>3. /\ u \in Values /\ u.sig = v.sig /\ u.decade = v.decade - k /\ u.exponent = v.exponent + k
        /\ Decade(u) = Decade(v) - k
    BY <1>1, <1>2, ShiftedFacts
  <1>4. Less(v, k, a.casts) = IF Decade(v) >= k THEN w ELSE v
    BY DEF Less
  <1>5. Decade(v) \in Int
    BY <1>2 DEF Decade
  <1> HIDE DEF u, off
  <1>6. /\ w \in Values /\ w.decade = u.decade /\ w.exponent = u.exponent
        /\ w.sig - u.sig \in -Roundoff..Roundoff
        /\ Decade(w) >= Decade(u) - 1 /\ (Decade(u) \in Firm => Decade(w) >= Decade(u))
    BY <1>1, <1>3, CastFacts
  <1> HIDE DEF w
  <1>7. CASE Decade(v) >= k
    <2>1. w.decade + w.exponent = a.decade /\ w.sig - v.sig \in -Roundoff..Roundoff
      BY <1>1, <1>2, <1>3, <1>6
    <2>2. Within(w, a, n + 1) /\ y = x + Roundoff /\ x \in Nat
      BY <1>1, <1>2, <1>6, <2>1, OneMore
    <2>3. Decade(w) >= 0
      <3>1. Decade(w) \in Int
        BY <1>6 DEF Decade, Values
      <3>2. Decade(u) \in Int /\ Decade(u) >= 0
        BY <1>1, <1>3, <1>5, <1>7
      <3>3. Decade(u) = 0 => Decade(u) \in Firm
        BY DEF Firm
      <3> QED BY <1>6, <3>1, <3>2, <3>3
    <2> HIDE DEF x, y
    <2>4. w.sig \in Int
      BY <1>6 DEF Values
    <2>5. w.decade < k \/ (w.decade = k /\ w.sig <= One + y)
      BY <1>1, <1>2, <1>3, <1>6, <2>1, <2>2, <2>4
    <2> QED BY <1>4, <1>7, <2>2, <2>3, <2>5 DEF UpTo, y
  <1>8. CASE ~(Decade(v) >= k)
    <2>1. Within(v, a, n + 1) /\ y = x + Roundoff /\ x \in Nat
      <3>1. v.sig - v.sig \in -Roundoff..Roundoff
        BY <1>1, <1>2
      <3> QED BY <1>1, <1>2, <3>1, OneMore
    <2> HIDE DEF x, y
    <2>2. v.decade < k \/ (v.decade = k /\ v.sig <= One + y)
      BY <1>1, <1>2, <1>8, <2>1 DEF Decade
    <2> QED BY <1>2, <1>4, <1>8, <2>1, <2>2 DEF UpTo, y
  <1> QED BY <1>7, <1>8

LEMMA MoreStep ==
    ASSUME NEW a, IsFloat(a), a.sig # 0, NEW k \in Steps, NEW n \in Nat, NEW v, DownTo(v, a, 2 * k, n),
           1 - k \in Firm \/ Decade(v) > 1 - 2 * k
    PROVE  DownTo(More(v, k, a.casts), a, k, n + 1)
  <1> DEFINE off == a.casts[k]
             u == Shifted(v, -k)
             w == Cast(u, off)
             x == n * Roundoff
             y == (n + 1) * Roundoff
  <1>1. /\ off \in -Roundoff..Roundoff /\ k \in Nat \ {0} /\ a.sig \in Int /\ a.decade \in Int
        /\ One \in Nat \ {0} /\ Roundoff \in Nat
    BY SmallPowers DEF IsFloat, Steps
  <1>2. /\ Within(v, a, n) /\ Decade(v) >= 1 - 2 * k /\ v \in Values
        /\ v.sig \in Int /\ v.decade \in Int /\ v.exponent \in Int /\ v.decade + v.exponent = a.decade
        /\ v.decade < 1 \/ (v.decade = 1 /\ v.sig <= One + x)
    BY DEF DownTo, Within, Values
  <1>3. /\ u \in Values /\ u.sig = v.sig /\ u.decade = v.decade + k /\ u.exponent = v.exponent - k
        /\ Decade(u) = Decade(v) + k
    <2>1. -k \in Int
      BY <1>1
    <2>2. /\ u \in Values /\ u.sig = v.sig /\ u.decade = v.decade - (-k) /\ u.exponent = v.exponent + (-k)
          /\ Decade(u) = Decade(v) - (-k)
      BY <1>2, <2>1, ShiftedFacts
    <2>3. Decade(v) \in Int
      BY <1>2 DEF Decade
    <2> HIDE DEF u
    <2> QED BY <1>1, <1>2, <2>2, <2>3
  <1>4. More(v, k, a.casts) = IF Decade(v) < 1 - k THEN w ELSE v
    BY DEF More
  <1>5. Decade(v) \in Int
    BY <1>2 DEF Decade
  <1> HIDE DEF u, off
  <1>6. /\ w \in Values /\ w.decade = u.decade /\ w.exponent = u.exponent
        /\ w.sig - u.sig \in -Roundoff..Roundoff
        /\ Decade(w) >= Decade(u) - 1 /\ (Decade(u) \in Firm => Decade(w) >= Decade(u))
    BY <1>1, <1>3, CastFacts
  <1> HIDE DEF w
  <1>7. CASE Decade(v) < 1 - k
    <2>1. w.decade + w.exponent = a.decade /\ w.sig - v.sig \in -Roundoff..Roundoff
      BY <1>1, <1>2, <1>3, <1>6
    <2>2. Within(w, a, n + 1) /\ y = x + Roundoff /\ x \in Nat
      BY <1>1, <1>2, <1>6, <2>1, OneMore
    <2>3. Decade(w) >= 1 - k
      <3>1. Decade(w) \in Int
        BY <1>6 DEF Decade, Values
      <3>2. Decade(u) \in Int /\ Decade(u) >= 1 - k
        BY <1>1, <1>2, <1>3, <1>5
      <3>3. Decade(u) = 1 - k => Decade(u) \in Firm
        BY <1>1, <1>3, <1>5
      <3> QED BY <1>1, <1>6, <3>1, <3>2, <3>3
    <2> HIDE DEF x, y
    <2>4. w.sig \in Int
      BY <1>6 DEF Values
    <2>5. w.decade < 1 \/ (w.decade = 1 /\ w.sig <= One + y)
      <3>1. v.decade < 1 - k \/ (v.decade = 1 - k /\ v.sig < One)
        BY <1>1, <1>2, <1>7 DEF Decade
      <3> QED BY <1>1, <1>2, <1>3, <1>6, <2>1, <2>2, <2>4, <3>1
    <2> QED BY <1>4, <1>7, <2>2, <2>3, <2>5 DEF DownTo, y
  <1>8. CASE ~(Decade(v) < 1 - k)
    <2>1. Within(v, a, n + 1) /\ y = x + Roundoff /\ x \in Nat
      <3>1. v.sig - v.sig \in -Roundoff..Roundoff
        BY <1>1, <1>2
      <3> QED BY <1>1, <1>2, <3>1, OneMore
    <2>2. Decade(v) >= 1 - k
      BY <1>1, <1>5, <1>8
    <2> HIDE DEF x, y
    <2>3. v.decade < 1 \/ (v.decade = 1 /\ v.sig <= One + y)
      BY <1>1, <1>2, <2>1
    <2> QED BY <1>4, <1>8, <2>1, <2>2, <2>3 DEF DownTo, y
  <1> QED BY <1>7, <1>8

\* All steps of a large or a small value.
IsTaken(v, a) == DownTo(v, a, 1, 6)

LEMMA StepsTaken ==
    ASSUME NEW a, IsFloat(a), a.sig # 0
    PROVE  /\ a.decade >= 0 => IsTaken(LessOfAll(AsIs(a), a.casts), a)
           /\ a.decade <= 0 => IsTaken(MoreOfAll(AsIs(a), a.casts), a)
  <1> DEFINE v == AsIs(a)
             c == a.casts
  <1>1. /\ v \in Values /\ v.sig = a.sig /\ v.decade = a.decade /\ v.exponent = 0
        /\ a.decade \in -45..38 /\ a.sig \in One..(10 * One - 1) /\ One \in Nat \ {0} /\ Roundoff \in Nat
    BY SmallPowers DEF IsFloat, AsIs, Values
  <1>2. Decade(v) = a.decade
    <2> HIDE DEF v
    <2> QED BY <1>1 DEF Decade
  <1>3. Within(v, a, 0)
    <2>1. 0 * Roundoff = 0
      BY <1>1
    <2> HIDE DEF v
    <2> QED BY <1>1, <2>1 DEF Within
  <1>4. /\ 32 \in Steps /\ 16 \in Steps /\ 8 \in Steps /\ 4 \in Steps /\ 2 \in Steps /\ 1 \in Steps
        /\ 2 * 32 = 64 /\ 2 * 16 = 32 /\ 2 * 8 = 16 /\ 2 * 4 = 8 /\ 2 * 2 = 4 /\ 2 * 1 = 2
        /\ 0 + 1 = 1 /\ 1 + 1 = 2 /\ 2 + 1 = 3 /\ 3 + 1 = 4 /\ 4 + 1 = 5 /\ 5 + 1 = 6
        /\ 1 - 16 \in Firm /\ 1 - 8 \in Firm /\ 1 - 4 \in Firm /\ 1 - 2 \in Firm /\ 1 - 1 \in Firm
    BY DEF Steps, Firm
  <1> HIDE DEF v, c
  <1>5. ASSUME a.decade >= 0 PROVE IsTaken(LessOfAll(v, c), a)
    <2>1. UpTo(v, a, 64, 0)
      BY <1>1, <1>2, <1>3, <1>5 DEF UpTo
    <2>2. Less(Less(Less(v, 256, c), 128, c), 64, c) = v
      <3>1. ~(Decade(v) >= 256) /\ ~(Decade(v) >= 128) /\ ~(Decade(v) >= 64)
        BY <1>1, <1>2
      <3>2. Less(v, 256, c) = v /\ Less(v, 128, c) = v /\ Less(v, 64, c) = v
        BY <3>1 DEF Less
      <3> QED BY <3>2
    <2> DEFINE v1 == Less(v, 32, c)
               v2 == Less(v1, 16, c)
               v3 == Less(v2, 8, c)
               v4 == Less(v3, 4, c)
               v5 == Less(v4, 2, c)
               v6 == Less(v5, 1, c)
    <2>3. LessOfAll(v, c) = v6
      BY <2>2 DEF LessOfAll
    <2>4. UpTo(v1, a, 32, 1)
      <3>1. UpTo(Less(v, 32, a.casts), a, 32, 0 + 1)
        BY <1>4, <2>1, LessStep
      <3> QED BY <3>1 DEF c
    <2> HIDE DEF v1
    <2>5. UpTo(v2, a, 16, 2)
      <3>1. UpTo(Less(v1, 16, a.casts), a, 16, 1 + 1)
        BY <1>4, <2>4, LessStep
      <3> QED BY <3>1 DEF c
    <2> HIDE DEF v2
    <2>6. UpTo(v3, a, 8, 3)
      <3>1. UpTo(Less(v2, 8, a.casts), a, 8, 2 + 1)
        BY <1>4, <2>5, LessStep
      <3> QED BY <3>1 DEF c
    <2> HIDE DEF v3
    <2>7. UpTo(v4, a, 4, 4)
      <3>1. UpTo(Less(v3, 4, a.casts), a, 4, 3 + 1)
        BY <1>4, <2>6, LessStep
      <3> QED BY <3>1 DEF c
    <2> HIDE DEF v4
    <2>8. UpTo(v5, a, 2, 5)
      <3>1. UpTo(Less(v4, 2, a.casts), a, 2, 4 + 1)
        BY <1>4, <2>7, LessStep
      <3> QED BY <3>1 DEF c
    <2> HIDE DEF v5
    <2>9. UpTo(v6, a, 1, 6)
      <3>1. UpTo(Less(v5, 1, a.casts), a, 1, 5 + 1)
        BY <1>4, <2>8, LessStep
      <3> QED BY <3>1 DEF c
    <2> HIDE DEF v6
    <2>10. DownTo(v6, a, 1, 6)
      BY <2>9 DEF UpTo, DownTo
    <2> QED BY <2>3, <2>10 DEF IsTaken
  <1>6. ASSUME a.decade <= 0 PROVE IsTaken(MoreOfAll(v, c), a)
    <2>1. DownTo(v, a, 64, 0) /\ Decade(v) > 1 - 64
      BY <1>1, <1>2, <1>3, <1>6 DEF DownTo
    <2>2. More(More(More(v, 256, c), 128, c), 64, c) = v
      <3>1. ~(Decade(v) < 1 - 256) /\ ~(Decade(v) < 1 - 128) /\ ~(Decade(v) < 1 - 64)
        BY <1>1, <1>2
      <3>2. More(v, 256, c) = v /\ More(v, 128, c) = v /\ More(v, 64, c) = v
        BY <3>1 DEF More
      <3> QED BY <3>2
    <2> DEFINE v1 == More(v, 32, c)
               v2 == More(v1, 16, c)
               v3 == More(v2, 8, c)
               v4 == More(v3, 4, c)
               v5 == More(v4, 2, c)
               v6 == More(v5, 1, c)
    <2>3. MoreOfAll(v, c) = v6
      BY <2>2 DEF MoreOfAll
    <2>4. DownTo(v1, a, 32, 1)
      <3>1. DownTo(More(v, 32, a.casts), a, 32, 0 + 1)
        BY <1>4, <2>1, MoreStep
      <3> QED BY <3>1 DEF c
    <2> HIDE DEF v1
    <2>5. DownTo(v2, a, 16, 2)
      <3>1. DownTo(More(v1, 16, a.casts), a, 16, 1 + 1)
        BY <1>4, <2>4, MoreStep
      <3> QED BY <3>1 DEF c
    <2> HIDE DEF v2
    <2>6. DownTo(v3, a, 8, 3)
      <3>1. DownTo(More(v2, 8, a.casts), a, 8, 2 + 1)
        BY <1>4, <2>5, MoreStep
      <3> QED BY <3>1 DEF c
    <2> HIDE DEF v3
    <2>7. DownTo(v4, a, 4, 4)
      <3>1. DownTo(More(v3, 4, a.casts), a, 4, 3 + 1)
        BY <1>4, <2>6, MoreStep
      <3> QED BY <3>1 DEF c
    <2> HIDE DEF v4
    <2>8. DownTo(v5, a, 2, 5)
      <3>1. DownTo(More(v4, 2, a.casts), a, 2, 4 + 1)
        BY <1>4, <2>7, MoreStep
      <3> QED BY <3>1 DEF c
    <2> HIDE DEF v5
    <2>9. DownTo(v6, a, 1, 6)
      <3>1. DownTo(More(v5, 1, a.casts), a, 1, 5 + 1)
        BY <1>4, <2>8, MoreStep
      <3> QED BY <3>1 DEF c
    <2> HIDE DEF v6
    <2> QED BY <2>3, <2>9 DEF IsTaken
  <1> QED BY <1>5, <1>6 DEF v, c

\* Either all decades go into the exponent, or none.
IsScaled(a) == IsLarge(a) \/ IsSmall(a)

LEMMA ExponentTaken ==
    ASSUME NEW a, IsFloat(a)
    PROVE  \/ IsScaled(a) /\ a.sig # 0 /\ IsTaken(normalizeFloat(a), a)
           \/ ~IsScaled(a) /\ normalizeFloat(a) = AsIs(a) /\ (a.sig # 0 => a.decade <= 13)
  <1>1. /\ a.decade \in Int /\ posExpThreshold \in 1..14 /\ negExpThreshold \in Nat
        /\ IsLarge(a) \in BOOLEAN /\ IsSmall(a) \in BOOLEAN
    BY FormatAssumption DEF IsFloat, IsLarge, IsSmall
  <1>2. normalizeFloat(a) = CASE IsLarge(a) -> LessOfAll(AsIs(a), a.casts)
                              [] IsSmall(a) -> MoreOfAll(AsIs(a), a.casts)
                              [] OTHER -> AsIs(a)
    BY DEF normalizeFloat, AsIs
  <1>3. /\ IsLarge(a) => a.sig # 0 /\ a.decade >= 0
        /\ IsSmall(a) => a.sig # 0 /\ a.decade <= 0
        /\ ~(IsLarge(a) /\ IsSmall(a))
        /\ ~IsLarge(a) /\ a.sig # 0 => a.decade <= 13
    BY <1>1 DEF IsLarge, IsSmall
  <1>4. CASE IsLarge(a)
    <2>1. normalizeFloat(a) = LessOfAll(AsIs(a), a.casts)
      BY <1>2, <1>3, <1>4, Zenon
    <2>2. IsTaken(LessOfAll(AsIs(a), a.casts), a)
      BY <1>3, <1>4, StepsTaken
    <2> QED BY <1>3, <1>4, <2>1, <2>2, Zenon DEF IsScaled
  <1>5. CASE IsSmall(a)
    <2>1. normalizeFloat(a) = MoreOfAll(AsIs(a), a.casts)
      BY <1>2, <1>3, <1>5, Zenon
    <2>2. IsTaken(MoreOfAll(AsIs(a), a.casts), a)
      BY <1>3, <1>5, StepsTaken
    <2> QED BY <1>3, <1>5, <2>1, <2>2, Zenon DEF IsScaled
  <1>6. CASE ~IsLarge(a) /\ ~IsSmall(a)
    <2>1. normalizeFloat(a) = AsIs(a)
      BY <1>2, <1>6, Zenon
    <2> QED BY <1>3, <1>6, <2>1, Zenon DEF IsScaled
  <1> QED BY <1>4, <1>5, <1>6

\* What splitFloat has to return of a value.
IsSplit(f, a) ==
    /\ f.integral \in Nat /\ f.integral < Power(10, 15)
    /\ f.decimal \in 0..(Power(10, Places) - 1)
    /\ f.exponent \in -400..400
    /\ f.exponent # 0 => f.integral \in 1..10
    /\ IsClose([mantissa |-> f.integral * Power(10, Places) + f.decimal, exponent |-> f.exponent], a)

\* The parts of the rounded value r, T units to one, unless it carries.
NoCarry(units, exponent, r, T) == /\ r = (units + 5) \div 10 /\ T = Power(10, Places)
                                  /\ exponent # 0 => r < 10 * T \/ (r < 11 * T /\ units >= 100 * T)
HasParts(f, exponent, r, T) ==
    /\ r \in Nat /\ f.integral = r \div T /\ f.decimal = r % T /\ f.exponent = exponent
    /\ (r \div T) * T + (r % T) = r /\ r \div T \in Nat /\ r % T \in 0..(T - 1)

LEMMA RoundedParts ==
    ASSUME NEW units \in Nat, NEW exponent \in Int, NEW r, NEW T, NoCarry(units, exponent, r, T)
    PROVE  HasParts(Rounded(units, exponent), exponent, r, T)
  <1>0. /\ r = (units + 5) \div 10 /\ T = Power(10, Places)
        /\ exponent # 0 => r < 10 * T \/ (r < 11 * T /\ units >= 100 * T)
    BY DEF NoCarry
  <1>1. T \in Nat \ {0} /\ One = 10 * T
    BY <1>0, SmallPowers
  <1>2. r \in Nat
    BY <1>0
  <1>3. r = T * (r \div T) + (r % T) /\ r % T \in 0..(T - 1) /\ r \div T \in Nat
    BY <1>1, <1>2, Division
  <1> DEFINE q == r \div T
             i == units \div One
  <1>4. /\ r < 10 * T => ~(q >= 10)
        /\ r < 11 * T => ~(q >= 11)
    <2> HIDE DEF q
    <2>1. r >= T * q /\ q \in Nat
      BY <1>1, <1>3 DEF q
    <2>2. (q >= 10 => T * q >= T * 10) /\ (q >= 11 => T * q >= T * 11) /\ T * q \in Nat
      BY <1>1, <2>1
    <2> QED BY <1>1, <1>2, <2>1, <2>2
  <1>5. units >= 100 * T => i >= 10
    <2> DEFINE b == 10 * T
    <2>1. b \in Nat \ {0} /\ 10 * b = 100 * T /\ One = b
      BY <1>1
    <2> HIDE DEF b
    <2>2. i = units \div b
      BY <2>1
    <2>3. units = b * i + (units % b) /\ units % b \in 0..(b - 1) /\ i \in Nat
      BY <2>1, <2>2, Division
    <2> HIDE DEF i
    <2>4. i <= 9 => b * i <= b * 9
      BY <2>1, <2>3
    <2>5. b * i \in Nat
      BY <2>1, <2>3
    <2> QED BY <1>1, <2>1, <2>3, <2>4, <2>5
  <1> DEFINE carries == q > i /\ exponent # 0 /\ q >= 10
  <1>6. /\ Rounded(units, exponent).integral = IF carries THEN 1 ELSE q
        /\ Rounded(units, exponent).decimal = r % T
        /\ Rounded(units, exponent).exponent = IF carries THEN exponent + 1 ELSE exponent
    BY <1>0 DEF Rounded
  <1>7. ~ carries
    <2>1. q \in Nat /\ i \in Int
      <3>1. i \in Int
        <4> DEFINE b == 10 * T
        <4>1. b \in Nat \ {0} /\ One = b
          BY <1>1
        <4> HIDE DEF b
        <4>2. units \div b \in Nat
          BY <4>1, Division
        <4> QED BY <4>1, <4>2
      <3> QED BY <1>3, <3>1
    <2> HIDE DEF q, i
    <2> QED BY <1>0, <1>4, <1>5, <2>1
  <1>8. T * q = q * T
    <2> HIDE DEF q
    <2> QED BY <1>1, <1>3 DEF q
  <1> HIDE DEF carries
  <1>9. q * T + (r % T) = r
    BY <1>3, <1>8
  <1> QED BY <1>2, <1>3, <1>6, <1>7, <1>9 DEF HasParts

\* The rounded value that carries.
LEMMA RoundedCarries ==
    ASSUME NEW T, T = Power(10, Places), NEW units \in Nat, units < 100 * T, (units + 5) \div 10 = 10 * T,
           NEW exponent \in Int, exponent # 0
    PROVE  /\ Rounded(units, exponent).integral = 1
           /\ Rounded(units, exponent).decimal = 0
           /\ Rounded(units, exponent).exponent = exponent + 1
  <1>1. T \in Nat \ {0} /\ One = 10 * T
    BY SmallPowers
  <1>2. (10 * T) \div T = 10 /\ (10 * T) % T = 0
    <2>1. 10 * T \in Nat /\ 10 * T = T * 10 + 0 /\ 0 \in 0..(T - 1)
      BY <1>1
    <2> QED BY <1>1, <2>1, Quotient
  <1>3. 10 > units \div (10 * T)
    <2> DEFINE b == 10 * T
               q == units \div b
    <2>1. b \in Nat \ {0} /\ 10 * b = 100 * T
      BY <1>1
    <2> HIDE DEF b
    <2>2. units = b * q + (units % b) /\ units % b \in 0..(b - 1) /\ q \in Nat
      BY <2>1, Division
    <2> HIDE DEF q
    <2>3. q >= 10 => b * q >= b * 10
      BY <2>1, <2>2
    <2>4. b * q \in Nat
      BY <2>1, <2>2
    <2>5. ~ (q >= 10)
      BY <2>1, <2>2, <2>3, <2>4
    <2> QED BY <2>2, <2>5 DEF q, b
  <1> DEFINE carries == 10 > units \div (10 * T) /\ exponent # 0 /\ 10 >= 10
  <1>4. carries
    BY <1>3
  <1>5. /\ Rounded(units, exponent).integral = IF carries THEN 1 ELSE 10
        /\ Rounded(units, exponent).decimal = 0
        /\ Rounded(units, exponent).exponent = IF carries THEN exponent + 1 ELSE exponent
    <2> DEFINE q == (10 * T) \div T
    <2>1. /\ Rounded(units, exponent).integral =
                 IF q > units \div (10 * T) /\ exponent # 0 /\ q >= 10 THEN 1 ELSE q
          /\ Rounded(units, exponent).decimal = (10 * T) % T
          /\ Rounded(units, exponent).exponent =
                 IF q > units \div (10 * T) /\ exponent # 0 /\ q >= 10 THEN exponent + 1 ELSE exponent
      BY <1>1 DEF Rounded
    <2> QED BY <1>2, <2>1
  <1> HIDE DEF carries
  <1> QED BY <1>4, <1>5

\* When a number read is close to the value printed.
IsNear(a, m, p, c) == IF p < 0 THEN m = a.sig * Power(10, -p)
                      ELSE 2 * (m * Power(10, p) - a.sig) \in -(Power(10, p) + c)..(Power(10, p) + c)

LEMMA CloseIf ==
    ASSUME NEW a, a.sig # 0, NEW m, NEW e, NEW p, p = e - a.decade + 1,
           IsNear(a, m, p, IF IsScaled(a) THEN 12 * Roundoff ELSE 0)
    PROVE  IsClose([mantissa |-> m, exponent |-> e], a)
  BY DEF IsClose, IsNear, IsScaled

\* A value without a digit is zero, whatever its decade.
LEMMA ZeroIsSplit ==
    ASSUME NEW a, IsFloat(a), a.sig = 0
    PROVE  IsSplit(Rounded(Units(AsIs(a)), 0), a)
  <1> DEFINE T == Power(10, Places)
             f == Rounded(0, 0)
  <1>1. Units(AsIs(a)) = 0
    <2>1. a.decade \in Int
      BY DEF IsFloat
    <2>2. CASE a.decade >= 0
      <3>1. Power(10, a.decade) \in Nat \ {0} /\ Units(AsIs(a)) = 0 * Power(10, a.decade)
        BY <2>1, <2>2, PowerIsPositive DEF Units, AsIs
      <3> QED BY <3>1
    <2>3. CASE ~ (a.decade >= 0)
      <3>1. Power(10, -a.decade) \in Nat \ {0} /\ Units(AsIs(a)) = 0 \div Power(10, -a.decade)
        BY <2>1, <2>3, PowerIsPositive DEF Units, AsIs
      <3>2. \A p \in Nat \ {0} : 0 \div p = 0
        OBVIOUS
      <3> QED BY <3>1, <3>2
    <2> QED BY <2>2, <2>3
  <1>2. T \in Nat \ {0} /\ (0 + 5) \div 10 = 0
    BY SmallPowers
  <1>3. 0 \div T = 0 /\ 0 % T = 0
    BY <1>2
  <1>4. f.integral = 0 /\ f.decimal = 0 /\ f.exponent = 0
    <2> DEFINE r == 0
    <2>1. 0 \in Nat /\ 0 \in Int /\ r = (0 + 5) \div 10 /\ T = Power(10, Places)
      BY <1>2
    <2> HIDE DEF r, T
    <2>2. f.integral = r \div T /\ f.decimal = r % T /\ f.exponent = 0
      <3>1. NoCarry(0, 0, r, T)
        BY <2>1 DEF NoCarry
      <3>2. HasParts(Rounded(0, 0), 0, r, T)
        BY <2>1, <3>1, RoundedParts
      <3> QED BY <3>2 DEF HasParts
    <2> QED BY <1>3, <2>2 DEF r
  <1> HIDE DEF f
  <1>5. f.integral * T + f.decimal = 0
    BY <1>2, <1>4
  <1>6. IsClose([mantissa |-> f.integral * T + f.decimal, exponent |-> f.exponent], a)
    BY <1>5 DEF IsClose
  <1>7. 0 \in 0..(T - 1) /\ 0 < Power(10, 15)
    BY <1>2, SmallPowers
  <1> HIDE DEF T
  <1> QED BY <1>1, <1>4, <1>6, <1>7 DEF IsSplit, f, T

\* The negation of a number whose value is known.
LEMMA Negation ==
    /\ \A x, y \in Int : x + y = 0 => -x = y
    /\ \A x \in Int : x = 0 => -x = 0
  OBVIOUS

\* A value whose decades are taken, in units of one more place than is printed:
\* one digit before the point, or ten, and what the casts have added.
TakenParts(v, a, T, units, r) ==
    /\ T = Power(10, Places) /\ units = Units(v) /\ r = (units + 5) \div 10
    /\ units \in Nat /\ r \in T..(11 * T - 1)
    /\ v.exponent \in -60..60
    /\ r >= 10 * T /\ units < 100 * T => /\ r = 10 * T
                                        /\ IsNear(a, T, (v.exponent + 1) - a.decade + 1, 12 * Roundoff)
    /\ IsNear(a, r, v.exponent - a.decade + 1, 12 * Roundoff)

LEMMA TakenUnits ==
    ASSUME NEW a, IsFloat(a), a.sig # 0, NEW v, IsTaken(v, a)
    PROVE  TakenParts(v, a, Power(10, Places), Units(v), (Units(v) + 5) \div 10)
  <1> DEFINE T == Power(10, Places)
             R == Roundoff
             s == a.sig
             z == v.sig
             d == v.decade
             e == v.exponent
             u == Units(v)
             r == (u + 5) \div 10
             p == e - a.decade + 1
  <1>1. /\ T \in Nat \ {0} /\ One = 10 * T /\ R \in Nat /\ 10 * R <= T
        /\ s \in (10 * T)..(100 * T - 1) /\ a.decade \in -45..38
    BY SmallPowers DEF IsFloat
  <1>2. /\ z \in Int /\ d \in Int /\ e \in Int /\ d + e = a.decade
        /\ z - s \in -(6 * R)..(6 * R)
        /\ d < 1 \/ (d = 1 /\ z <= One + 6 * R)
    BY DEF IsTaken, DownTo, Within, Values
  <1>3. /\ d \in -1..1
        /\ d = -1 => z >= 100 * T
        /\ d = 0 => z >= 10 * T
    <2>1. Decade(v) >= 0
      BY DEF IsTaken, DownTo
    <2> QED BY <1>1, <1>2, <2>1 DEF Decade
  <1>4. p = 1 - d /\ e \in -60..60 /\ (e + 1) - a.decade + 1 = 2 - d
    BY <1>1, <1>2, <1>3
  <1>5. /\ d = -1 => u = z \div 10
        /\ d = 0 => u = z
        /\ d = 1 => u = 10 * z
    <2>1. d = -1 => ~(d >= 0) /\ -d = 1
      <3> HIDE DEF d
      <3>1. d = -1 => ~(d >= 0) /\ d + 1 = 0
        BY <1>2
      <3>2. 1 \in Int /\ d \in Int
        BY <1>2
      <3> QED BY <3>1, <3>2, Negation
    <2>2. d = -1 => u = z \div 10
      BY <2>1, SmallPowers DEF Units
    <2>3. d = 0 => u = z * 1
      BY SmallPowers DEF Units
    <2>4. d = 1 => u = z * 10
      BY SmallPowers DEF Units
    <2> HIDE DEF u
    <2> QED BY <1>2, <2>2, <2>3, <2>4
  <1>6. /\ Power(10, 0) = 1 /\ Power(10, 1) = 10 /\ Power(10, 2) = 100
        /\ ~(0 < 0) /\ ~(1 < 0) /\ ~(2 < 0)
    BY SmallPowers
  <1>7. r = (u + 5) \div 10
    OBVIOUS
  <1> HIDE DEF T, R, s, z, d, e, u, r, p
  <1>8. CASE d = -1
    <2>1. u \in Nat /\ 10 * u \in (z - 9)..z /\ p = 2
      BY <1>1, <1>2, <1>3, <1>4, <1>5, <1>8
    <2>2. r \in Int /\ 10 * r \in (u - 4)..(u + 5)
      BY <1>7, <2>1
    <2>3. r \in T..(11 * T - 1) /\ r < 10 * T
      BY <1>1, <1>2, <1>3, <1>8, <2>1, <2>2
    <2>4. 2 * (r * 100 - s) \in -(100 + 12 * R)..(100 + 12 * R)
      BY <1>1, <1>2, <2>1, <2>2
    <2>5. IsNear(a, r, p, 12 * R)
      BY <1>6, <2>1, <2>4 DEF IsNear, s
    <2> QED BY <1>1, <1>4, <1>7, <2>1, <2>3, <2>5 DEF TakenParts, T, R, e, u, r, p
  <1>9. CASE d = 0
    <2>1. u \in Nat /\ u = z /\ p = 1 /\ (e + 1) - a.decade + 1 = 2
      BY <1>1, <1>2, <1>3, <1>4, <1>5, <1>9
    <2>2. r \in Int /\ 10 * r \in (u - 4)..(u + 5)
      BY <1>7, <2>1
    <2>3. r \in T..(11 * T - 1)
      BY <1>1, <1>2, <1>3, <1>9, <2>1, <2>2
    <2>4. 2 * (r * 10 - s) \in -(10 + 12 * R)..(10 + 12 * R)
      BY <1>1, <1>2, <2>1, <2>2
    <2>5. IsNear(a, r, p, 12 * R)
      BY <1>6, <2>1, <2>4 DEF IsNear, s
    <2>6. ASSUME r >= 10 * T /\ u < 100 * T
          PROVE  r = 10 * T /\ IsNear(a, T, (e + 1) - a.decade + 1, 12 * R)
      <3>1. r = 10 * T /\ 2 * (T * 100 - s) \in -(100 + 12 * R)..(100 + 12 * R)
        BY <1>1, <1>2, <2>1, <2>2, <2>6
      <3> QED BY <1>6, <2>1, <3>1 DEF IsNear, s
    <2> QED BY <1>1, <1>4, <1>7, <2>1, <2>3, <2>5, <2>6 DEF TakenParts, T, R, e, u, r, p
  <1>10. CASE d = 1
    <2>1. u \in Nat /\ u = 10 * z /\ p = 0 /\ z \in Nat
      BY <1>1, <1>2, <1>3, <1>4, <1>5, <1>10
    <2>2. r = z
      <3>1. \A y \in Nat : (10 * y + 5) \div 10 = y
        OBVIOUS
      <3> QED BY <1>7, <2>1, <3>1
    <2>3. r \in T..(11 * T - 1) /\ (u < 100 * T => r < 10 * T)
      BY <1>1, <1>2, <1>10, <2>1, <2>2
    <2>4. 2 * (r * 1 - s) \in -(1 + 12 * R)..(1 + 12 * R)
      BY <1>1, <1>2, <2>1, <2>2
    <2>5. IsNear(a, r, p, 12 * R)
      BY <1>6, <2>1, <2>4 DEF IsNear, s
    <2> QED BY <1>1, <1>4, <1>7, <2>1, <2>3, <2>5 DEF TakenParts, T, R, e, u, r, p
  <1> QED BY <1>3, <1>8, <1>9, <1>10

\* The carry makes ten of the digit one of the next decade; a ten that is no
\* carry stays.
LEMMA TakenIsSplit ==
    ASSUME NEW a, IsFloat(a), a.sig # 0, IsScaled(a), NEW v, IsTaken(v, a)
    PROVE  IsSplit(Rounded(Units(v), v.exponent), a)
  <1> DEFINE T == Power(10, Places)
             u == Units(v)
             r == (u + 5) \div 10
             e == v.exponent
             f == Rounded(u, e)
             c == 12 * Roundoff
  <1>1. T \in Nat \ {0} /\ T = Power(10, Places) /\ c = IF IsScaled(a) THEN 12 * Roundoff ELSE 0
    BY SmallPowers
  <1>2. TakenParts(v, a, T, u, r)
    BY TakenUnits
  <1> HIDE DEF T, u, r, c
  <1>3. /\ r = (u + 5) \div 10 /\ u \in Nat /\ r \in T..(11 * T - 1) /\ e \in -60..60 /\ e \in Int
        /\ r >= 10 * T /\ u < 100 * T => r = 10 * T /\ IsNear(a, T, (e + 1) - a.decade + 1, c)
        /\ IsNear(a, r, e - a.decade + 1, c)
    BY <1>2 DEF TakenParts, c
  <1> HIDE DEF e
  <1>4. CASE e = 0 \/ r < 10 * T \/ u >= 100 * T
    <2> DEFINE q == r \div T
    <2>1. /\ r \in Nat /\ f.integral = q /\ f.decimal = r % T /\ f.exponent = e
          /\ q * T + (r % T) = r /\ q \in Nat /\ r % T \in 0..(T - 1)
      <3>1. e # 0 => r < 10 * T \/ (r < 11 * T /\ u >= 100 * T)
        BY <1>1, <1>3, <1>4
      <3>2. NoCarry(u, e, r, T)
        BY <1>1, <1>3, <3>1 DEF NoCarry
      <3>3. HasParts(Rounded(u, e), e, r, T)
        BY <1>3, <3>2, RoundedParts
      <3> QED BY <3>3 DEF HasParts
    <2> HIDE DEF f, q
    <2>2. q \in 1..10
      <3>1. q = 0 => q * T = 0
        BY <1>1
      <3>2. q >= 11 => q * T >= 11 * T
        BY <1>1, <2>1
      <3> DEFINE x == q * T
                 y == r % T
      <3>3. x \in Nat
        BY <1>1, <2>1
      <3>4. x + y = r /\ y \in 0..(T - 1) /\ (q = 0 => x = 0) /\ (q >= 11 => x >= 11 * T)
        BY <2>1, <3>1, <3>2
      <3> HIDE DEF x, y
      <3> QED BY <1>1, <1>3, <2>1, <3>3, <3>4
    <2>3. IsClose([mantissa |-> r, exponent |-> e], a)
      <3>1. e - a.decade + 1 = e - a.decade + 1 /\ IsNear(a, r, e - a.decade + 1, IF IsScaled(a) THEN 12 * Roundoff ELSE 0)
        BY <1>1, <1>3
      <3> QED BY <3>1, CloseIf
    <2>4. q < Power(10, 15) /\ e \in -400..400
      BY <1>3, <2>2, SmallPowers
    <2>5. f.integral * T + f.decimal = r
      BY <2>1
    <2>6. IsSplit(f, a)
      BY <1>1, <2>1, <2>2, <2>3, <2>4, <2>5 DEF IsSplit
    <2> QED BY <2>6 DEF f, u, e
  <1>5. CASE e # 0 /\ ~(r < 10 * T) /\ ~(u >= 100 * T)
    <2>1. r = 10 * T /\ u < 100 * T /\ IsNear(a, T, (e + 1) - a.decade + 1, c)
      BY <1>1, <1>3, <1>5
    <2>2. f.integral = 1 /\ f.decimal = 0 /\ f.exponent = e + 1
      <3>1. (u + 5) \div 10 = 10 * T
        BY <1>3, <2>1
      <3> QED BY <1>1, <1>3, <1>5, <2>1, <3>1, RoundedCarries
    <2> HIDE DEF f
    <2>3. IsClose([mantissa |-> T, exponent |-> e + 1], a)
      <3>1. (e + 1) - a.decade + 1 = (e + 1) - a.decade + 1 /\ IsNear(a, T, (e + 1) - a.decade + 1, IF IsScaled(a) THEN 12 * Roundoff ELSE 0)
        BY <1>1, <2>1
      <3> QED BY <3>1, CloseIf
    <2>4. f.integral * T + f.decimal = T
      BY <1>1, <2>2
    <2>5. 1 < Power(10, 15) /\ 0 \in 0..(T - 1) /\ e + 1 \in -400..400
      BY <1>1, <1>3, SmallPowers
    <2>6. IsSplit(f, a)
      BY <1>1, <2>2, <2>3, <2>4, <2>5 DEF IsSplit
    <2> QED BY <2>6 DEF f, u, e
  <1> QED BY <1>1, <1>3, <1>4, <1>5

\* A value none of whose decades are taken: the digits that its decade leaves
\* behind the point printed are dropped, the last of them rounded.
LEMMA UntakenParts ==
    ASSUME NEW units \in Nat, NEW k \in 0..14,
           (units + 5) \div 10 < Power(10, Places) * Power(10, k)
    PROVE  LET f == Rounded(units, 0)
           IN  /\ f.integral \in Nat /\ f.integral < Power(10, 15)
               /\ f.decimal \in 0..(Power(10, Places) - 1)
               /\ f.exponent = 0
               /\ f.integral * Power(10, Places) + f.decimal = (units + 5) \div 10
  <1> DEFINE T == Power(10, Places)
             r == (units + 5) \div 10
             f == Rounded(units, 0)
             q == r \div T
  <1>1. r = (units + 5) \div 10 /\ T = Power(10, Places) /\ 0 \in Int
    OBVIOUS
  <1>0. T \in Nat \ {0} /\ r < T * Power(10, k)
    BY SmallPowers
  <1>2. k \in Nat /\ 15 \in Nat /\ k <= 15 /\ 10 \in Nat \ {0}
    OBVIOUS
  <1>3. Power(10, k) <= Power(10, 15) /\ Power(10, k) \in Nat /\ Power(10, 15) \in Nat
    BY <1>2, PowerGrows, SmallPowers, PowerIsPositive
  <1> HIDE DEF T, r
  <1>4. /\ r \in Nat /\ f.integral = q /\ f.decimal = r % T /\ f.exponent = 0
        /\ q * T + (r % T) = r /\ q \in Nat /\ r % T \in 0..(T - 1)
    <2>1. NoCarry(units, 0, r, T)
      BY <1>1 DEF NoCarry
    <2>2. HasParts(Rounded(units, 0), 0, r, T)
      BY <1>1, <2>1, RoundedParts
    <2> QED BY <2>2 DEF HasParts
  <1> HIDE DEF q, f
  <1>5. q < Power(10, k)
    <2> DEFINE p == Power(10, k)
               x == q * T
               y == r % T
               z == T * p
    <2>1. q >= p => x >= z
      <3>1. p \in Nat
        BY <1>3
      <3> HIDE DEF p
      <3> QED BY <1>0, <1>4, <3>1
    <2>2. x \in Nat /\ z \in Nat
      BY <1>0, <1>3, <1>4
    <2>3. x + y = r /\ y \in Nat /\ r < z
      BY <1>0, <1>4
    <2> HIDE DEF x, y, z
    <2> QED BY <1>3, <1>4, <2>1, <2>2, <2>3
  <1>6. f.integral * T + f.decimal = r
    BY <1>4
  <1> QED BY <1>1, <1>3, <1>4, <1>5, <1>6 DEF f, r, T

\* What is left of its decade puts the point where it belongs.
LEMMA UntakenIsSplit ==
    ASSUME NEW a, IsFloat(a), a.sig # 0, ~IsScaled(a), a.decade <= 13
    PROVE  IsSplit(Rounded(Units(AsIs(a)), 0), a)
  <1> DEFINE T == Power(10, Places)
             s == a.sig
             d == a.decade
             u == Units(AsIs(a))
             r == (u + 5) \div 10
  <1>1. T \in Nat \ {0} /\ s \in (10 * T)..(100 * T - 1) /\ d \in -45..13
    BY SmallPowers DEF IsFloat
  <1>2. /\ u \in Nat
        /\ \E k \in 0..14 : r < T * Power(10, k)
        /\ IF 1 - d <= 0 THEN r = s * Power(10, -(1 - d))
           ELSE 2 * (r * Power(10, 1 - d) - s) \in -Power(10, 1 - d)..Power(10, 1 - d)
    <2>1. CASE d > 0
      <3> DEFINE e == d - 1
                 p == Power(10, e)
      <3>1. e \in 0..12 /\ e \in Nat /\ d = e + 1 /\ -(1 - d) = e /\ 1 - d <= 0 /\ d >= 0
        BY <1>1, <2>1
      <3>2. Power(10, d) = 10 * p /\ p \in Nat \ {0}
        <4> HIDE DEF d, e
        <4> QED BY <3>1, PowerIsPositive, PowerUnfolds, SMTT(30)
      <3>3. u = s * (10 * p)
        <4>1. u = s * Power(10, d)
          BY <3>1 DEF Units, AsIs
        <4> QED BY <3>2, <4>1
      <3> HIDE DEF p, u, s, T, d, e
      <3>4. u = 10 * (s * p) /\ s * p \in Nat /\ s \in Nat
        BY <1>1, <3>2, <3>3
      <3>5. r = s * p /\ u \in Nat
        <4> DEFINE x == s * p
        <4> HIDE DEF x
        <4>1. \A y \in Nat : (10 * y + 5) \div 10 = y
          OBVIOUS
        <4>2. u = 10 * x /\ x \in Nat
          BY <3>4 DEF x
        <4>3. r = x
          BY <4>1, <4>2
        <4> QED BY <3>4, <4>3 DEF x
      <3> HIDE DEF r
      <3>6. r < T * Power(10, (e + 1) + 1)
        <4>1. Power(10, (e + 1) + 1) = 100 * p
          <5>1. Power(10, (e + 1) + 1) = 10 * Power(10, e + 1)
            <6>1. e + 1 \in Nat
              BY <3>1
            <6> DEFINE n == e + 1
            <6> HIDE DEF n
            <6>2. Power(10, n + 1) = 10 * Power(10, n)
              BY <6>1, PowerUnfolds DEF n
            <6> QED BY <6>2 DEF n
          <5>2. Power(10, e + 1) = 10 * p
            BY <3>1, <3>2
          <5>3. 10 * (10 * p) = 100 * p
            BY <3>2
          <5> QED BY <5>1, <5>2, <5>3
        <4>2. s * p < (100 * T) * p
          BY <1>1, <3>2
        <4>3. (100 * T) * p = T * (100 * p)
          BY <1>1, <3>2
        <4> QED BY <3>5, <4>1, <4>2, <4>3
      <3>7. (e + 1) + 1 \in 0..14
        BY <3>1
      <3>8. r = s * Power(10, -(1 - d))
        BY <3>1, <3>5 DEF p
      <3> QED BY <3>1, <3>5, <3>6, <3>7, <3>8
    <2>2. CASE d <= 0
      <3> DEFINE k == -d
                 p == Power(10, k)
                 t == s % p
      <3>1. k \in Nat /\ 1 - d = k + 1 /\ ~ (1 - d <= 0) /\ d \in Int
        BY <1>1, <2>2
      <3>2. Power(10, 1 - d) = 10 * p /\ p \in Nat \ {0}
        <4> DEFINE n == 1 - d
        <4>1. n = k + 1
          BY <3>1
        <4>2. k \in Nat
          BY <3>1
        <4> HIDE DEF d, k, n
        <4>3. p \in Nat \ {0}
          BY <4>2, PowerIsPositive
        <4>4. Power(10, k + 1) = 10 * Power(10, k)
          BY <4>2, PowerUnfolds
        <4>5. Power(10, n) = 10 * p
          BY <4>1, <4>4
        <4> QED BY <4>3, <4>5 DEF n
      <3>3. u = s \div p
        <4>1. CASE d = 0
          <5>1. u = s * Power(10, 0) /\ p = Power(10, 0)
            BY <4>1 DEF Units, AsIs
          <5>2. s * 1 = s /\ s \div 1 = s
            BY <1>1
          <5> QED BY <5>1, <5>2, SmallPowers
        <4>2. CASE d # 0
          <5>1. ~ (d >= 0)
            BY <1>1, <2>2, <4>2
          <5> QED BY <5>1 DEF Units, AsIs
        <4> QED BY <4>1, <4>2
      <3> HIDE DEF p, u, s, T
      <3>4. s = p * u + t /\ t \in 0..(p - 1) /\ u \in Nat /\ s \in Nat
        <4>1. s \in Nat
          BY <1>1
        <4>2. s = p * (s \div p) + (s % p) /\ s % p \in 0..(p - 1) /\ s \div p \in Nat
          BY <3>2, <4>1, Division
        <4> QED BY <3>3, <4>1, <4>2
      <3> HIDE DEF t
      <3>5. u <= s
        <4>1. p * u >= u
          BY <3>2, <3>4
        <4> QED BY <3>2, <3>4, <4>1
      <3>6. 10 * r \in (u - 4)..(u + 5) /\ r \in Nat /\ r < 100 * T
        BY <1>1, <3>4, <3>5
      <3> HIDE DEF r
      <3>7. 2 * (r * (10 * p) - s) \in -(10 * p)..(10 * p)
        <4> DEFINE c == 10 * r - u
        <4>1. c \in -4..5
          BY <3>4, <3>6
        <4>2. r * (10 * p) = p * (10 * r) /\ 10 * r = u + c
          BY <3>2, <3>4, <3>6
        <4> HIDE DEF c
        <4>3. r * (10 * p) = p * u + p * c
          BY <3>2, <3>4, <4>1, <4>2
        <4>4. p * c >= -4 * p /\ p * c <= 5 * p
          BY <3>2, <4>1
        <4> DEFINE x == p * u
                   y == p * c
        <4>5. x \in Int /\ y \in Int
          BY <3>2, <3>4, <4>1
        <4> HIDE DEF x, y
        <4>6. r * (10 * p) - s = y - t
          BY <3>4, <4>3, <4>5 DEF x, y
        <4>7. y >= -4 * p /\ y <= 5 * p
          BY <4>4 DEF y
        <4> QED BY <3>2, <3>4, <4>5, <4>6, <4>7
      <3>8. r < T * Power(10, 2) /\ 2 \in 0..14
        BY <1>1, <3>6, SmallPowers
      <3> QED BY <3>1, <3>2, <3>4, <3>7, <3>8
    <2> QED BY <1>1, <2>1, <2>2
  <1>3. r \in Nat
    BY <1>2
  <1> DEFINE f == Rounded(u, 0)
  <1>4. /\ f.integral \in Nat /\ f.integral < Power(10, 15)
        /\ f.decimal \in 0..(T - 1) /\ f.exponent = 0
        /\ f.integral * T + f.decimal = r
    BY <1>2, UntakenParts
  <1>5. IsClose([mantissa |-> r, exponent |-> 0], a)
    <2>1. 0 - a.decade + 1 = 1 - d
      BY <1>1
    <2>2. IsNear(a, r, 1 - d, 0)
      <3>1. CASE d = 1
        <4>1. 1 - d = 0 /\ -(1 - d) = 0 /\ 1 - d <= 0 /\ ~(1 - d < 0)
          <5> DEFINE x == 1 - d
          <5>1. x = 0 /\ x \in Int
            BY <1>1, <3>1
          <5> HIDE DEF x
          <5>2. -x = 0
            BY <5>1, Negation
          <5>3. x <= 0 /\ ~(x < 0)
            BY <5>1
          <5> QED BY <5>1, <5>2, <5>3 DEF x
        <4>2. r = s * 1
          BY <1>2, <4>1, SmallPowers
        <4>3. s \in Int /\ r = s
          BY <1>1, <4>2
        <4> HIDE DEF r, d, s
        <4>4. 2 * (r * 1 - s) \in -(1 + 0)..(1 + 0)
          BY <4>3
        <4>5. 2 * (r * Power(10, 1 - d) - s) \in -(Power(10, 1 - d) + 0)..(Power(10, 1 - d) + 0)
          BY <4>1, <4>4, SmallPowers
        <4> QED BY <4>1, <4>5 DEF IsNear, s
      <3>2. CASE d # 1
        <4>1. 1 - d <= 0 <=> 1 - d < 0
          BY <1>1, <3>2
        <4>2. Power(10, 1 - d) + 0 = Power(10, 1 - d) \/ 1 - d < 0
          <5>1. ~(1 - d < 0) => 1 - d \in Nat
            BY <1>1
          <5>2. ~(1 - d < 0) => Power(10, 1 - d) \in Nat
            BY <5>1, PowerIsPositive
          <5> QED BY <5>2
        <4> HIDE DEF r, d, s
        <4> QED BY <1>2, <4>1, <4>2 DEF IsNear, s
      <3> QED BY <3>1, <3>2
    <2>3. IsNear(a, r, 0 - a.decade + 1, IF IsScaled(a) THEN 12 * Roundoff ELSE 0)
      BY <2>1, <2>2
    <2> HIDE DEF r
    <2> QED BY <2>3, CloseIf
  <1> HIDE DEF f, r, T, u
  <1>6. 0 \in -400..400
    OBVIOUS
  <1>7. IsSplit(f, a)
    BY <1>4, <1>5, <1>6 DEF IsSplit, T
  <1> QED BY <1>7 DEF f, u

\* splitFloat returns parts that stand for the value.
LEMMA SplitsFloat ==
    ASSUME NEW a, IsFloat(a)
    PROVE  IsSplit(splitFloat(a), a)
  <1> DEFINE n == normalizeFloat(a)
  <1>1. splitFloat(a) = Rounded(Units(n), n.exponent)
    BY DEF splitFloat
  <1> HIDE DEF n
  <1>2. CASE IsScaled(a) /\ a.sig # 0 /\ IsTaken(n, a)
    BY <1>1, <1>2, TakenIsSplit
  <1>3. CASE ~IsScaled(a) /\ n = AsIs(a) /\ (a.sig # 0 => a.decade <= 13)
    <2>1. n.exponent = 0
      BY <1>3 DEF AsIs
    <2> QED BY <1>1, <1>3, <2>1, ZeroIsSplit, UntakenIsSplit
  <1> QED BY <1>2, <1>3, ExponentTaken DEF n

-----------------------------------------------------------------------------
(* The text of a float *)

\* A character is found where it stands first.
LEMMA FindsPlace ==
    ASSUME NEW text, IsText(text), NEW c, NEW n \in 0..Len(text),
           n < Len(text) => text[n + 1] = c, \A j \in 1..n : text[j] # c
    PROVE  Find(text, c) = n + 1
  <1>1. Len(text) \in Nat
    BY TextLength
  <1> DEFINE k == n + 1
  <1>2. k \in 1..(Len(text) + 1) /\ (k <= Len(text) => text[k] = c) /\ \A j \in 1..(k - 1) : text[j] # c
    BY <1>1
  <1> HIDE DEF k
  <1>3. ASSUME NEW i \in 1..(Len(text) + 1), i <= Len(text) => text[i] = c,
               \A j \in 1..(i - 1) : text[j] # c
        PROVE  i = k
    <2>1. CASE i < k
      <3>1. i \in 1..(k - 1) /\ i <= Len(text)
        BY <1>1, <1>2, <2>1
      <3> QED BY <1>2, <1>3, <3>1
    <2>2. CASE k < i
      <3>1. k \in 1..(i - 1) /\ k <= Len(text)
        BY <1>1, <1>2, <2>2
      <3> QED BY <1>2, <1>3, <3>1
    <2> QED BY <1>1, <1>2, <2>1, <2>2
  <1>4. Find(text, c) = k
    BY <1>2, <1>3, Zenon DEF Find
  <1> QED BY <1>4 DEF k

\* A text stands in another one, behind its first m characters.
StandsBehind(m, s, t) == IsText(t) /\ \A i \in 1..Len(t) : s[m + i] = t[i]

\* What is cut out of a text is the one that stands there.
LEMMA PartIs ==
    ASSUME NEW s, NEW t, NEW m \in Nat, StandsBehind(m, s, t),
           NEW b \in Nat, b = m + 1, NEW n \in Nat, n = m + Len(t)
    PROVE  SubSeq(s, b, n) = t
  <1> DEFINE u == SubSeq(s, b, n)
             l == Len(t)
  <1>1. l \in Nat /\ IsText(t) /\ \A i \in 1..l : s[m + i] = t[i]
    BY TextLength DEF StandsBehind
  <1>2. /\ b \in Int /\ n \in Int
        /\ (IF b <= n THEN n - b + 1 ELSE 0) = l
        /\ \A i \in 1..l : i \in 1..(n - b + 1) /\ b + i - 1 = m + i
    BY <1>1
  <1>3. IsText(u) /\ Len(u) = l
    BY <1>2, Part
  <1>4. \A i \in 1..l : u[i] = s[b + i - 1]
    BY <1>2, Part
  <1>5. \A i \in 1..l : u[i] = t[i]
    BY <1>1, <1>2, <1>4
  <1> HIDE DEF u
  <1> QED BY <1>1, <1>3, <1>5, SameText DEF u

LEMMA FrontIs ==
    ASSUME NEW s, NEW t, IsText(t), \A i \in 1..Len(t) : s[i] = t[i]
    PROVE  SubSeq(s, 1, Len(t)) = t
  <1> DEFINE m == 0
             b == 1
             n == Len(t)
  <1>1. m \in Nat /\ n \in Nat /\ n = m + Len(t) /\ b \in Nat /\ b = m + 1 /\ \A i \in 1..Len(t) : m + i = i
    BY TextLength
  <1> HIDE DEF m, b, n
  <1>2. StandsBehind(m, s, t)
    BY <1>1 DEF StandsBehind
  <1>3. SubSeq(s, b, n) = t
    BY <1>1, <1>2, PartIs
  <1> QED BY <1>3 DEF b, n

\* What is before the point, behind it, and behind the e.
LEMMA CutsFloat ==
    ASSUME NEW D, NEW S, NEW X, NEW Y, IsText(D), IsText(S), IsText(Y),
           \A i \in 1..Len(D) : IsDigit(D[i]),
           \A i \in 1..Len(S) : IsDigit(S[i]),
           (X = <<>> /\ Y = <<>>) \/ X = <<"e">> \o Y
    PROVE  LET text == (D \o (<<".">> \o S)) \o X
           IN  /\ Find(text, ".") = Len(D) + 1
               /\ ReadFloat(text) = [mantissa |-> Power(10, Places - Len(S)) * ReadDigits(D \o S, 10),
                                     exponent |-> ReadSigned(Y)]
               /\ Len(D) # 0 => text[1] = D[1]
  <1> DEFINE text == (D \o (<<".">> \o S)) \o X
             l == Len(D)
             q == Len(S)
             B == D \o (<<".">> \o S)
             n == l + 1 + q
             x == Len(X)
  <1>1. l \in Nat /\ q \in Nat
    BY TextLength
  <1>2. IsText(X) /\ x \in Nat /\ (x # 0 => X[1] = "e")
    <2>1. IsText(<<"e">> \o Y) /\ (<<"e">> \o Y)[1] = "e"
      BY Short, Joined, TailJoined
    <2>2. CASE X = <<>> /\ Y = <<>>
      BY <2>2, Short
    <2>3. CASE X = <<"e">> \o Y
      <3>1. IsText(X) /\ X[1] = "e"
        BY <2>1, <2>3
      <3> HIDE DEF x
      <3> QED BY <3>1, TextLength DEF x
    <2> QED BY <2>2, <2>3
  <1>3. /\ IsText(<<".">>) /\ Len(<<".">>) = 1 /\ IsText(<<".">> \o S) /\ Len(<<".">> \o S) = 1 + q
        /\ (<<".">> \o S)[1] = "." /\ \A i \in 1..q : (<<".">> \o S)[i + 1] = S[i]
    <2> DEFINE P == <<".">>
               F == P \o S
    <2>1. IsText(P) /\ Len(P) = 1 /\ P[1] = "."
      BY Short
    <2> HIDE DEF P
    <2>2. IsText(P \o S) /\ Len(P \o S) = Len(P) + Len(S)
          /\ \A i \in 1..(Len(P) + Len(S)) : (P \o S)[i] = IF i <= Len(P) THEN P[i] ELSE S[i - Len(P)]
      BY <2>1, Joined, Joining
    <2>3. 1 \in 1..(1 + q) /\ \A i \in 1..q : i + 1 \in 1..(1 + q) /\ ~ (i + 1 <= 1) /\ (i + 1) - 1 = i
      BY <1>1
    <2> HIDE DEF F
    <2>5. IsText(F) /\ Len(F) = 1 + q /\ \A i \in 1..(1 + q) : F[i] = IF i <= 1 THEN P[i] ELSE S[i - 1]
      BY <2>1, <2>2 DEF F
    <2> HIDE DEF q
    <2>4. F[1] = "." /\ \A i \in 1..q : F[i + 1] = S[i]
      BY <2>1, <2>3, <2>5
    <2> QED BY <2>1, <2>4, <2>5 DEF F, P
  <1> DEFINE F == <<".">> \o S
  <1> HIDE DEF F
  <1>4. B = D \o F
    BY DEF F
  <1>5. /\ IsText(B) /\ Len(B) = n /\ n \in Nat
        /\ \A i \in 1..l : B[i] = D[i]
        /\ B[l + 1] = "."
        /\ \A i \in 1..q : B[(l + 1) + i] = S[i]
    <2>1. IsText(F) /\ Len(F) = 1 + q /\ F[1] = "." /\ \A i \in 1..q : F[i + 1] = S[i]
      BY <1>3 DEF F
    <2>2. IsText(D \o F) /\ Len(D \o F) = l + (1 + q)
          /\ \A i \in 1..(l + (1 + q)) : (D \o F)[i] = IF i <= l THEN D[i] ELSE F[i - l]
      BY <2>1, Joined, Joining, ZenonT(30)
    <2> HIDE DEF l, q, B
    <2>3. /\ \A i \in 1..l : i \in 1..(l + (1 + q)) /\ i <= l
          /\ l + 1 \in 1..(l + (1 + q)) /\ ~ (l + 1 <= l) /\ (l + 1) - l = 1
          /\ \A i \in 1..q : /\ (l + 1) + i \in 1..(l + (1 + q)) /\ ~ ((l + 1) + i <= l)
                              /\ ((l + 1) + i) - l = i + 1
          /\ l + (1 + q) = n /\ n \in Nat
      BY <1>1
    <2> DEFINE R == D \o F
    <2>4. B = R
      BY <1>4
    <2> HIDE DEF R, n
    <2>5. IsText(R) /\ Len(R) = n /\ \A i \in 1..(l + (1 + q)) : R[i] = IF i <= l THEN D[i] ELSE F[i - l]
      BY <2>2, <2>3 DEF R
    <2> QED BY <2>1, <2>3, <2>4, <2>5, SMTT(30)
  <1> HIDE DEF B, F
  <1>6. /\ IsText(text) /\ Len(text) = n + x
        /\ \A i \in 1..n : text[i] = B[i]
        /\ \A i \in 1..x : text[n + i] = X[i]
    <2>1. text = B \o X
      BY DEF B
    <2> HIDE DEF n, text
    <2>4. IsText(B) /\ Len(B) = n /\ IsText(X) /\ Len(X) = x
      BY <1>2, <1>5
    <2>5. IsText(B \o X) /\ Len(B \o X) = Len(B) + Len(X)
          /\ \A i \in 1..(Len(B) + Len(X)) : (B \o X)[i] = IF i <= Len(B) THEN B[i] ELSE X[i - Len(B)]
      BY <2>4, Joined, Joining
    <2>2. IsText(text) /\ Len(text) = n + x
          /\ \A i \in 1..(n + x) : text[i] = IF i <= n THEN B[i] ELSE X[i - n]
      BY <2>1, <2>4, <2>5
    <2> HIDE DEF x
    <2>3. /\ \A i \in 1..n : i \in 1..(n + x) /\ i <= n
          /\ \A i \in 1..x : n + i \in 1..(n + x) /\ ~ (n + i <= n) /\ (n + i) - n = i
      BY <1>2, <1>5
    <2> QED BY <2>2, <2>3
  <1> HIDE DEF x, text
  <1>7. \A i \in 1..n : B[i] # "e" /\ (i # l + 1 => IsDigit(B[i]))
    <2> SUFFICES ASSUME NEW i \in 1..n PROVE B[i] # "e" /\ (i # l + 1 => IsDigit(B[i]))
      OBVIOUS
    <2> HIDE DEF l, q
    <2>1. CASE i <= l
      <3>1. i \in 1..l
        BY <1>1, <2>1
      <3> QED BY <1>5, <3>1, NoSuchDigit DEF l
    <2>2. CASE i = l + 1
      BY <1>5, <2>2
    <2>3. CASE i > l + 1
      <3> DEFINE j == i - (l + 1)
      <3>1. j \in 1..q /\ (l + 1) + j = i
        BY <1>1, <2>3
      <3> HIDE DEF j
      <3>2. B[(l + 1) + j] = S[j] /\ IsDigit(S[j])
        BY <1>5, <3>1 DEF q
      <3> QED BY <3>1, <3>2, NoSuchDigit
    <2> QED BY <1>1, <2>1, <2>2, <2>3
  <1>8. l + 1 \in 1..n /\ \A j \in 1..((l + 1) - 1) : j \in 1..n /\ j # l + 1
    BY <1>1
  <1>9. \A j \in 1..((l + 1) - 1) : B[j] # "."
    BY <1>7, <1>8, NoSuchDigit
  <1> HIDE DEF l, q, n
  <1>10. Find(text, ".") = l + 1
    <2>1. l \in 0..Len(text)
      BY <1>1, <1>2, <1>5, <1>6, <1>8
    <2>2. text[l + 1] = "." /\ \A j \in 1..l : text[j] # "."
      BY <1>1, <1>5, <1>6, <1>8, <1>9
    <2> QED BY <1>6, <2>1, <2>2, FindsPlace
  <1>11. Find(text, "e") = n + 1
    <2>1. n \in 0..Len(text) /\ (n < Len(text) => x # 0 /\ 1 \in 1..x)
      BY <1>2, <1>5, <1>6
    <2>2. n < Len(text) => text[n + 1] = "e"
      BY <1>2, <1>6, <2>1
    <2>3. \A j \in 1..n : text[j] # "e"
      BY <1>6, <1>7
    <2> QED BY <1>6, <2>1, <2>2, <2>3, FindsPlace
  <1>12. SubSeq(text, 1, n) = B
    BY <1>5, <1>6, FrontIs
  <1>13. Find(B, ".") = l + 1
    <2>1. l \in 0..Len(B)
      BY <1>1, <1>5, <1>8
    <2>2. \A j \in 1..l : B[j] # "."
      BY <1>1, <1>9
    <2> QED BY <1>5, <2>1, <2>2, FindsPlace
  <1>14. SubSeq(text, 1, l) = D
    <2>1. l = Len(D) /\ \A i \in 1..Len(D) : i \in 1..n /\ i \in 1..l
      BY <1>1, <1>8 DEF l
    <2>2. \A i \in 1..Len(D) : text[i] = D[i]
      BY <1>5, <1>6, <2>1
    <2> QED BY <2>1, <2>2, FrontIs
  <1>15. SubSeq(text, (l + 1) + 1, n) = S
    <2> DEFINE m == l + 1
               b == (l + 1) + 1
    <2>1. b \in Nat /\ b = m + 1 /\ m \in Nat /\ n \in Nat /\ n = m + Len(S) /\ \A i \in 1..Len(S) : m + i \in 1..n /\ i \in 1..q
      BY <1>1, <1>5 DEF q, n
    <2>2. StandsBehind(m, text, S)
      BY <1>5, <1>6, <2>1 DEF StandsBehind
    <2> HIDE DEF m, b
    <2>3. SubSeq(text, b, n) = S
      BY <2>1, <2>2, PartIs
    <2> QED BY <2>3 DEF b
  <1>16. SubSeq(text, (n + 1) + 1, Len(text)) = Y
    <2>1. CASE X = <<>> /\ Y = <<>>
      <3>1. x = 0
        BY <2>1 DEF x
      <3>2. (n + 1) + 1 \in Int /\ Len(text) \in Int /\ ~ ((n + 1) + 1 <= Len(text))
        BY <1>5, <1>6, <3>1
      <3>3. IsText(SubSeq(text, (n + 1) + 1, Len(text))) /\ Len(SubSeq(text, (n + 1) + 1, Len(text))) = 0
        BY <3>2, Part
      <3>4. IsText(Y) /\ Len(Y) = 0
        BY <2>1
      <3> DEFINE u == SubSeq(text, (n + 1) + 1, Len(text))
      <3> HIDE DEF u
      <3>5. Len(u) = 0 /\ IsText(u)
        BY <3>3 DEF u
      <3>6. \A i \in 1..Len(u) : u[i] = Y[i]
        BY <3>5
      <3>7. u = Y
        BY <3>4, <3>5, <3>6, SameText
      <3> QED BY <3>7 DEF u
    <2>2. CASE X = <<"e">> \o Y
      <3>1. IsText(<<"e">>) /\ Len(<<"e">>) = 1 /\ Len(Y) \in Nat
        BY Short, TextLength
      <3>2. x = 1 + Len(Y) /\ \A i \in 1..(1 + Len(Y)) : X[i] = IF i <= 1 THEN <<"e">>[i] ELSE Y[i - 1]
        BY <2>2, <3>1, Joining DEF x
      <3>3. /\ n + 1 \in Nat /\ Len(text) = (n + 1) + Len(Y) /\ Len(text) \in Nat
            /\ \A i \in 1..Len(Y) : /\ i + 1 \in 1..(1 + Len(Y)) /\ i + 1 \in 1..x /\ ~ (i + 1 <= 1)
                                     /\ (i + 1) - 1 = i /\ (n + 1) + i = n + (i + 1)
        BY <1>5, <1>6, <3>1, <3>2
      <3>4. \A i \in 1..Len(Y) : text[(n + 1) + i] = Y[i]
        <4> SUFFICES ASSUME NEW i \in 1..Len(Y) PROVE text[(n + 1) + i] = Y[i]
          OBVIOUS
        <4> DEFINE j == i + 1
        <4>1. j \in 1..(1 + Len(Y)) /\ j \in 1..x /\ ~ (j <= 1) /\ j - 1 = i /\ (n + 1) + i = n + j
          BY <3>3
        <4> HIDE DEF j
        <4>2. X[j] = Y[i]
          BY <3>2, <4>1
        <4>3. text[n + j] = X[j]
          BY <1>6, <4>1
        <4> QED BY <4>1, <4>2, <4>3
      <3> DEFINE m == n + 1
                 b == (n + 1) + 1
                 k == Len(text)
      <3>5. b \in Nat /\ b = m + 1 /\ m \in Nat /\ k \in Nat /\ k = m + Len(Y) /\ StandsBehind(m, text, Y)
        BY <3>3, <3>4 DEF StandsBehind
      <3> HIDE DEF m, b, k
      <3>6. SubSeq(text, b, k) = Y
        BY <3>5, PartIs
      <3> QED BY <3>6 DEF b, k
    <2> QED BY <2>1, <2>2
  <1>17. /\ (n + 1) - 1 = n /\ (l + 1) - 1 = l /\ l + 1 < n + 1 /\ n - (l + 1) = q
         /\ Places - q = Places - Len(S)
    BY <1>1, <1>5 DEF n, q
  <1>18. ReadFloat(text) = [mantissa |-> Power(10, Places - q) * ReadDigits(D \o S, 10),
                            exponent |-> ReadSigned(Y)]
    <2> DEFINE e == n + 1
               p == l + 1
               Cut(at) == [mantissa |-> Power(10, Places - (IF p < e THEN (e - 1) - p ELSE 0)) *
                               ReadDigits(SubSeq(text, 1, p - 1) \o SubSeq(text, p + 1, e - 1), 10),
                           exponent |-> ReadSigned(SubSeq(text, e + 1, Len(text)))]
    <2>1. Find(text, "e") = e /\ Find(SubSeq(text, 1, e - 1), ".") = p
      BY <1>11, <1>12, <1>13, <1>17
    <2>2. ReadFloat(text) = Cut(0)
      BY <2>1 DEF ReadFloat
    <2>3. (IF p < e THEN (e - 1) - p ELSE 0) = q
      BY <1>17
    <2> QED BY <1>14, <1>15, <1>16, <1>17, <2>2, <2>3
  <1>19. l # 0 => text[1] = D[1]
    <2>1. l # 0 => 1 \in 1..l /\ 1 \in 1..n
      BY <1>1, <1>8
    <2> QED BY <1>5, <1>6, <2>1
  <1> QED BY <1>10, <1>17, <1>18, <1>19 DEF l, text

\* Zeros at the end of a number's digits are a power of ten in it.
LEMMA TrailingZeros ==
    ASSUME NEW v \in Nat, NEW n \in Nat, NEW last \in 0..n,
           \A j \in (last + 1)..n : Padded(v, 10, n)[j] = "0"
    PROVE  v = Power(10, n - last) * (v \div Power(10, n - last))
  <1> DEFINE Whole(k) == v = Power(10, k) * (v \div Power(10, k))
             T == {k \in Nat : k <= n - last => Whole(k)}
  <1>1. \A k \in Nat : k \in T <=> (k <= n - last => Whole(k))
    OBVIOUS
  <1> HIDE DEF T
  <1>2. 0 \in T
    <2>1. 1 * v = v
      OBVIOUS
    <2>2. Whole(0)
      BY <2>1, QuotientByOne, SmallPowers
    <2> HIDE DEF Whole
    <2> QED BY <1>1, <2>2
  <1>3. ASSUME NEW k \in Nat, k \in T PROVE k + 1 \in T
    <2>1. ASSUME k + 1 <= n - last PROVE Whole(k + 1)
      <3> DEFINE j == n - k
                 p == Power(10, k)
                 q == v \div p
                 r == v \div Power(10, k + 1)
      <3>1. j \in (last + 1)..n /\ j \in 1..n /\ n - j = k /\ k <= n - last
        BY <2>1
      <3>2. Digit(q % 10) = "0"
        <4> HIDE DEF j
        <4>1. Padded(v, 10, n)[j] = Digit((v \div Power(10, n - j)) % 10)
          BY <3>1, PaddedCharacters
        <4> QED BY <3>1, <4>1
      <3>3. q = r * 10 + (q % 10) /\ q % 10 \in 0..9 /\ q \in Nat /\ r \in Nat
        <4>1. 10 \in 1..16 /\ k + 1 \in Nat /\ 10 - 1 = 9
          OBVIOUS
        <4>2. q = r * 10 + (q % 10) /\ q % 10 \in 0..(10 - 1) /\ q \in Nat
          BY <4>1, NextDigit
        <4>3. r \in Nat
          <5> DEFINE m == k + 1
          <5> HIDE DEF m
          <5>1. v \div Power(10, m) \in Nat
            BY <4>1, NextDigit DEF m
          <5> QED BY <5>1 DEF m
        <4> QED BY <4>1, <4>2, <4>3
      <3>4. q % 10 = 0
        <4>1. 0 \in 0..15 /\ q % 10 \in 0..15
          BY <3>3
        <4>2. Digit(0) = "0"
          BY DEF Digit, Digits
        <4> QED BY <3>2, <4>1, <4>2, DigitsDiffer
      <3>5. v = p * q /\ p \in Nat /\ Power(10, k + 1) = 10 * p
        <4>1. Whole(k)
          BY <1>1, <1>3, <3>1
        <4>2. p \in Nat /\ Power(10, k + 1) = 10 * p
          BY PowerIsPositive, PowerUnfolds
        <4> QED BY <4>1, <4>2
      <3> HIDE DEF p, q, r
      <3>6. q = r * 10
        BY <3>3, <3>4
      <3>7. p * (r * 10) = (10 * p) * r
        BY <3>3, <3>5
      <3>8. v = Power(10, k + 1) * r
        BY <3>5, <3>6, <3>7
      <3> QED BY <3>8 DEF r
    <2>2. k + 1 \in Nat
      OBVIOUS
    <2> HIDE DEF Whole
    <2> QED BY <1>1, <2>1, <2>2
  <1>4. n - last \in Nat
    OBVIOUS
  <1> HIDE DEF Whole
  <1>5. Whole(n - last)
    <2> DEFINE m == n - last
    <2>1. m \in Nat /\ m <= n - last
      BY <1>4
    <2> HIDE DEF m
    <2>2. m \in T
      BY <1>2, <1>3, <2>1, Inductive
    <2>3. Whole(m)
      BY <1>1, <2>1, <2>2
    <2> QED BY <2>3 DEF m
  <1> QED BY <1>5 DEF Whole

\* What is printed behind the point: the digits without zeros at their end.
LEMMA FractionShows ==
    ASSUME NEW decimal \in Nat
    PROVE  \E q \in 0..Places :
               /\ Fraction(decimal, Places) = <<".">> \o SubSeq(Padded(decimal, 10, Places), 1, q)
               /\ decimal = Power(10, Places - q) * (decimal \div Power(10, Places - q))
  <1> DEFINE all == Padded(decimal, 10, Places)
             Ends(i) == /\ i = 0 \/ all[i] # "0"
                        /\ \A j \in (i + 1)..Places : all[j] = "0"
             last == CHOOSE i \in 0..Places : Ends(i)
             T == {i \in 0..Places : \A j \in (i + 1)..Places : all[j] = "0"}
  <1>1. Places \in Nat \ {0}
    BY FormatAssumption
  <1>2. IsText(all) /\ Len(all) = Places
    BY <1>1, PaddedCharacters
  <1>3. Fraction(decimal, Places) = <<".">> \o (IF decimal = 0 THEN all ELSE SubSeq(all, 1, last))
    BY <1>1 DEF Fraction
  <1>4. CASE decimal = 0
    <2>1. SubSeq(all, 1, Places) = all
      <3> HIDE DEF all
      <3> QED BY <1>2, FrontIs
    <2>2. Places - Places = 0 /\ Places \in 0..Places
      BY <1>1
    <2>3. decimal = Power(10, 0) * (decimal \div Power(10, 0))
      <3>1. 1 * decimal = decimal
        OBVIOUS
      <3> QED BY <3>1, QuotientByOne, SmallPowers
    <2>4. Fraction(decimal, Places) = <<".">> \o SubSeq(all, 1, Places)
      <3> HIDE DEF all
      <3> QED BY <1>3, <1>4, <2>1
    <2>5. decimal = Power(10, Places - Places) * (decimal \div Power(10, Places - Places))
      BY <2>2, <2>3
    <2> QED BY <2>2, <2>4, <2>5, Zenon
  <1>5. CASE decimal # 0
    <2>1. \E i \in 0..Places : Ends(i)
      <3> HIDE DEF all
      <3>1. Places \in T /\ T \subseteq Nat /\ T \subseteq 0..Places
        BY <1>1
      <3>2. \A i \in 0..Places : i \in T <=> \A j \in (i + 1)..Places : all[j] = "0"
        OBVIOUS
      <3> HIDE DEF T
      <3>3. PICK i \in T : \A m \in T : i <= m
        BY <3>1, LeastMember
      <3>4. i = 0 \/ all[i] # "0"
        <4> SUFFICES ASSUME i # 0, all[i] = "0" PROVE FALSE
          OBVIOUS
        <4>1. i \in 0..Places /\ i - 1 \in 0..Places
          BY <1>1, <3>1, <3>3
        <4>2. \A j \in ((i - 1) + 1)..Places : j = i \/ j \in (i + 1)..Places
          BY <1>1, <4>1
        <4>3. i - 1 \in T
          BY <3>2, <3>3, <4>1, <4>2
        <4> QED BY <3>3, <4>1, <4>3
      <3> QED BY <3>1, <3>2, <3>3, <3>4
    <2>2. last \in 0..Places /\ \A j \in (last + 1)..Places : all[j] = "0"
      <3> HIDE DEF all
      <3> QED BY <2>1
    <2> HIDE DEF last
    <2>3. decimal = Power(10, Places - last) * (decimal \div Power(10, Places - last))
      BY <1>1, <2>2, TrailingZeros
    <2>4. Fraction(decimal, Places) = <<".">> \o SubSeq(all, 1, last)
      BY <1>3, <1>5
    <2> QED BY <2>2, <2>3, <2>4
  <1> QED BY <1>4, <1>5

\* The digits before and behind the point, read as one number.
LEMMA JoinedDigitsRead ==
    ASSUME NEW v \in Nat, v < Power(10, 15), NEW n \in Nat, NEW w \in Nat, w < Power(10, n), NEW q \in 0..n
    PROVE  LET s == SubSeq(Padded(w, 10, n), 1, q)
           IN  /\ IsText(s) /\ Len(s) = q /\ \A i \in 1..q : IsDigit(s[i])
               /\ ReadDigits(Decimal(v) \o s, 10) = v * Power(10, q) + (w \div Power(10, n - q))
  <1> DEFINE all == Padded(w, 10, n)
             s == SubSeq(all, 1, q)
             d == Decimal(v)
             l == Length(v)
             t == d \o s
             f == [i \in 0..(l + q) |-> IF i <= l THEN v \div Power(10, l - i)
                                        ELSE v * Power(10, i - l) + (w \div Power(10, n - (i - l)))]
  <1>1. l \in 1..15 /\ l \in Nat /\ q \in Nat /\ 10 \in 1..16 /\ 10 - 1 = 9
    BY DecimalCharacters
  <1>2. /\ IsText(s) /\ Len(s) = q
        /\ \A i \in 1..q : /\ s[i] = Digit((w \div Power(10, n - i)) % 10)
                           /\ (w \div Power(10, n - i)) % 10 \in 0..9
    <2>1. /\ 1 \in Int /\ q \in Int /\ (IF 1 <= q THEN q - 1 + 1 ELSE 0) = q
          /\ \A i \in 1..q : i \in 1..(q - 1 + 1) /\ 1 + i - 1 = i /\ i \in 1..n /\ n - i \in Nat
      BY <1>1
    <2>2. IsText(s) /\ Len(s) = q /\ \A i \in 1..q : s[i] = all[i]
      <3> HIDE DEF all
      <3>1. IsText(s) /\ Len(s) = (IF 1 <= q THEN q - 1 + 1 ELSE 0) /\ \A i \in 1..(q - 1 + 1) : s[i] = all[1 + i - 1]
        BY <2>1, Part
      <3> HIDE DEF s
      <3> QED BY <2>1, <3>1
    <2>3. \A i \in 1..q : all[i] = Digit((w \div Power(10, n - i)) % 10)
      BY <2>1, PaddedCharacters
    <2>4. \A i \in 1..q : (w \div Power(10, n - i)) % 10 \in 0..9
      BY <1>1, <2>1, NextDigit
    <2> QED BY <2>2, <2>3, <2>4
  <1>3. /\ IsText(d) /\ Len(d) = l /\ v < Power(10, l)
        /\ \A i \in 1..l : /\ d[i] = Digit((v \div Power(10, l - i)) % 10)
                           /\ (v \div Power(10, l - i)) % 10 \in 0..9
    BY DecimalCharacters
  <1>4. \A i \in 1..q : IsDigit(s[i])
    BY <1>2 DEF IsDigit
  <1> HIDE DEF s, d, l
  <1>5. /\ IsText(t) /\ Len(t) = l + q
        /\ \A i \in 1..(l + q) : t[i] = IF i <= l THEN d[i] ELSE s[i - l]
    BY <1>2, <1>3, Joined, Joining
  <1> HIDE DEF t
  <1>6. f[0] = 0
    <2>1. 0 \in 0..(l + q) /\ 0 <= l /\ l - 0 = l
      BY <1>1
    <2>2. \A p \in Nat \ {0} : v < p => v \div p = 0
      OBVIOUS
    <2>4. Power(10, l) \in Nat \ {0}
      BY <1>1, PowerIsPositive
    <2>3. v \div Power(10, l) = 0
      BY <1>3, <2>2, <2>4
    <2> QED BY <2>1, <2>3
  <1>7. f[l] = v
    <2>1. l \in 0..(l + q) /\ l <= l /\ l - l = 0
      BY <1>1
    <2> QED BY <2>1, QuotientByOne
  <1>8. \A k \in 1..q : f[l + k] = v * Power(10, k) + (w \div Power(10, n - k))
    <2>1. \A k \in 1..q : l + k \in 0..(l + q) /\ ~ (l + k <= l) /\ (l + k) - l = k
      BY <1>1
    <2> QED BY <2>1
  <1>9. ASSUME NEW i \in 1..l
        PROVE  \E c \in 0..(10 - 1) : Digit(c) = t[i] /\ f[i] = f[i - 1] * 10 + c
    <2> DEFINE k == l - i
               c == (v \div Power(10, k)) % 10
    <2>1. k \in Nat /\ l - (i - 1) = k + 1 /\ i \in 0..(l + q) /\ i - 1 \in 0..(l + q) /\ i <= l /\ i - 1 <= l
          /\ i \in 1..(l + q)
      BY <1>1
    <2>2. f[i] = v \div Power(10, k) /\ f[i - 1] = v \div Power(10, k + 1)
      BY <2>1
    <2>3. t[i] = Digit(c) /\ c \in 0..(10 - 1)
      BY <1>1, <1>3, <1>5, <2>1
    <2> HIDE DEF k, f
    <2>4. v \div Power(10, k) = (v \div Power(10, k + 1)) * 10 + c
      BY <1>1, <2>1, NextDigit
    <2> HIDE DEF c
    <2>5. f[i] = f[i - 1] * 10 + c
      BY <2>2, <2>4
    <2> QED BY <2>3, <2>5
  <1>10. ASSUME NEW j \in 1..q
         PROVE  \E c \in 0..(10 - 1) : Digit(c) = t[l + j] /\ f[l + j] = f[(l + j) - 1] * 10 + c
    <2> DEFINE k == n - j
               c == (w \div Power(10, k)) % 10
               g == w \div Power(10, k + 1)
               p == Power(10, j - 1)
    <2>1. k \in Nat /\ j - 1 \in Nat /\ (j - 1) + 1 = j /\ n - (j - 1) = k + 1
          /\ l + j \in 1..(l + q) /\ ~ (l + j <= l) /\ (l + j) - l = j /\ (l + j) - 1 = l + (j - 1)
          /\ (j # 1 => j - 1 \in 1..q)
      BY <1>1
    <2>2. t[l + j] = Digit(c) /\ c \in 0..(10 - 1)
      <3>1. t[l + j] = s[j]
        BY <1>5, <2>1
      <3> QED BY <1>1, <1>2, <3>1
    <2>3. f[l + j] = v * Power(10, j) + (w \div Power(10, k))
      BY <1>8
    <2>4. f[(l + j) - 1] = v * p + g
      <3>1. CASE j = 1
        <4>1. (l + j) - 1 = l /\ j - 1 = 0 /\ k + 1 = n
          BY <1>1, <3>1
        <4>2. \A x \in Nat \ {0} : w < x => w \div x = 0
          OBVIOUS
        <4>3. w \div Power(10, n) = 0
          BY <4>2, PowerIsPositive
        <4>4. p = 1 /\ g = 0 /\ v * 1 + 0 = v
          BY <4>1, <4>3, SmallPowers
        <4>5. f[(l + j) - 1] = v
          <5> HIDE DEF f
          <5> QED BY <1>7, <4>1
        <4> HIDE DEF p, g, f
        <4> QED BY <4>4, <4>5
      <3>2. CASE j # 1
        <4> DEFINE h == j - 1
        <4>1. h \in 1..q /\ n - h = k + 1 /\ (l + j) - 1 = l + h
          BY <2>1, <3>2
        <4> HIDE DEF h, f
        <4>2. f[l + h] = v * Power(10, h) + (w \div Power(10, n - h))
          BY <1>8, <4>1
        <4> QED BY <4>1, <4>2 DEF h
      <3> QED BY <3>1, <3>2
    <2>5. Power(10, j) = 10 * p /\ p \in Nat
      <3> DEFINE h == j - 1
      <3>1. h \in Nat /\ j = h + 1
        BY <2>1
      <3>2. h \in Nat
        BY <3>1
      <3> HIDE DEF h
      <3>3. Power(10, h + 1) = 10 * Power(10, h)
        BY <3>2, PowerUnfolds
      <3>4. Power(10, h) \in Nat
        BY <3>2, PowerIsPositive
      <3> QED BY <3>1, <3>3, <3>4 DEF h
    <2>6. w \div Power(10, k) = g * 10 + c /\ w \div Power(10, k) \in Nat
      <3> HIDE DEF k
      <3> QED BY <1>1, <2>1, NextDigit
    <2>7. g \in Nat
      <3> DEFINE m == k + 1
      <3>1. m \in Nat
        BY <2>1
      <3> HIDE DEF m
      <3>2. w \div Power(10, m) \in Nat
        BY <1>1, <3>1, NextDigit
      <3> QED BY <3>2 DEF m
    <2> HIDE DEF f, p, g, c, k
    <2>8. v * (10 * p) + (g * 10 + c) = (v * p + g) * 10 + c
      <3>1. v * (10 * p) = (v * p) * 10 /\ v * p \in Nat
        BY <2>5
      <3> DEFINE x == v * p
      <3> HIDE DEF x
      <3>2. x * 10 + (g * 10 + c) = (x + g) * 10 + c
        BY <2>2, <2>7, <3>1 DEF x
      <3> QED BY <3>1, <3>2 DEF x
    <2>9. f[l + j] = f[(l + j) - 1] * 10 + c
      BY <2>3, <2>4, <2>5, <2>6, <2>8
    <2> QED BY <2>2, <2>9
  <1>11. f[l + q] = v * Power(10, q) + (w \div Power(10, n - q))
    <2>1. CASE q = 0
      <3>1. l + q = l /\ n - q = n /\ v * 1 + 0 = v
        BY <1>1, <2>1
      <3>2. \A x \in Nat \ {0} : w < x => w \div x = 0
        OBVIOUS
      <3>3. w \div Power(10, n) = 0
        BY <3>2, PowerIsPositive
      <3> HIDE DEF f
      <3> QED BY <1>7, <2>1, <3>1, <3>3, SmallPowers
    <2>2. CASE q # 0
      <3>1. q \in 1..q
        BY <1>1, <2>2
      <3> HIDE DEF f
      <3> QED BY <1>8, <3>1
    <2> QED BY <2>1, <2>2
  <1> HIDE DEF f
  <1>12. Counts(f, t, 10)
    <2> SUFFICES ASSUME NEW i \in 1..(l + q)
                 PROVE  \E c \in 0..(10 - 1) : Digit(c) = t[i] /\ f[i] = f[i - 1] * 10 + c
      BY <1>5, <1>6 DEF Counts
    <2>1. CASE i <= l
      <3>1. i \in 1..l
        BY <1>1, <2>1
      <3> QED BY <1>9, <3>1
    <2>2. CASE ~ (i <= l)
      <3> DEFINE j == i - l
      <3>1. j \in 1..q /\ l + j = i
        BY <1>1, <2>2
      <3> HIDE DEF j
      <3>2. \E c \in 0..(10 - 1) : Digit(c) = t[l + j] /\ f[l + j] = f[(l + j) - 1] * 10 + c
        BY <1>10, <3>1
      <3> QED BY <3>1, <3>2
    <2> QED BY <2>1, <2>2
  <1>13. ReadDigits(t, 10) = f[l + q]
    BY <1>1, <1>5, <1>12, CountsRead
  <1> QED BY <1>2, <1>4, <1>11, <1>13 DEF s, d, t

\* No exponent is read as 0.
LEMMA EmptyReads == ReadSigned(<<>>) = 0
  <1> DEFINE g == [i \in 0..0 |-> 0]
             s == <<>>
  <1>1. IsText(s) /\ Len(s) = 0 /\ 10 \in 1..16 /\ g[0] = 0
    <2>1. IsText(<<>>)
      BY Short
    <2>2. Len(<<>>) = 0
      OBVIOUS
    <2>3. g[0] = 0 /\ 10 \in 1..16
      OBVIOUS
    <2> QED BY <2>1, <2>2, <2>3
  <1>2. Counts(g, s, 10)
    BY <1>1 DEF Counts
  <1>3. ReadDigits(s, 10) = g[Len(s)]
    <2> HIDE DEF g, s
    <2> QED BY <1>1, <1>2, CountsRead
  <1>4. ReadDigits(<<>>, 10) = 0
    BY <1>1, <1>3
  <1> QED BY <1>4 DEF ReadSigned

\* An exponent is read back from what is behind the e.
LEMMA ExponentShows ==
    ASSUME NEW e \in -400..400
    PROVE  \E Y : /\ IsText(Y) /\ ReadSigned(Y) = e
                  /\ (Exponent(e) = <<>> /\ Y = <<>>) \/ Exponent(e) = <<"e">> \o Y
  <1>1. \A v \in 0..400 : v \in Nat /\ v < Power(10, 15)
    BY SmallPowers
  <1>2. CASE e = 0
    <2>1. Exponent(e) = <<>>
      BY <1>2 DEF Exponent
    <2> QED BY <1>2, <2>1, EmptyReads, Short
  <1>3. CASE e > 0
    <2> DEFINE Y == Decimal(e)
    <2>1. e \in 0..400 /\ ~ (e < 0) /\ e # 0
      BY <1>3
    <2>2. Exponent(e) = (<<"e">> \o <<>>) \o Y
      BY <2>1 DEF Exponent, Sign
    <2>3. <<"e">> \o <<>> = <<"e">>
      BY Short, JoinEmpty
    <2>4. IsText(Y) /\ ReadSigned(Y) = e
      BY <1>1, <2>1, DecimalCharacters, DecimalReadsBack
    <2>5. Exponent(e) = <<"e">> \o Y
      BY <2>2, <2>3
    <2> QED BY <2>4, <2>5
  <1>4. CASE e < 0
    <2> DEFINE D == Decimal(-e)
               Y == <<"-">> \o D
    <2>1. -e \in 0..400 /\ e # 0 /\ -(-e) = e
      BY <1>4
    <2>2. Exponent(e) = (<<"e">> \o <<"-">>) \o D
      BY <1>4, <2>1 DEF Exponent, Sign
    <2>3. IsText(D) /\ ReadSigned(Y) = e
      BY <1>1, <2>1, DecimalCharacters, DecimalReadsBack
    <2>4. IsText(<<"e">>) /\ IsText(<<"-">>)
      BY Short
    <2> HIDE DEF D
    <2>5. IsText(Y) /\ (<<"e">> \o <<"-">>) \o D = <<"e">> \o Y
      BY <2>3, <2>4, Joined, JoinTwice
    <2>6. Exponent(e) = <<"e">> \o Y
      BY <2>2, <2>5
    <2> QED BY <2>3, <2>5, <2>6
  <1> QED BY <1>2, <1>3, <1>4

\* A number below ten has one digit, and ten has two.
LEMMA LeadingDigits ==
    ASSUME NEW v \in 1..10
    PROVE  /\ v # 10 => Length(v) = 1 /\ Decimal(v)[1] # "0"
           /\ v = 10 => Length(v) = 2 /\ Decimal(v)[1] = "1" /\ Decimal(v)[2] = "0"
  <1> DEFINE n == Length(v)
  <1>1. n \in 1..15 /\ Fits(v, n) /\ \A k \in 1..(n - 1) : ~Fits(v, k)
    BY LengthIsLeast
  <1>2. (Fits(v, 1) <=> v # 10) /\ Fits(v, 2)
    BY SmallPowers DEF Fits
  <1> HIDE DEF n
  <1>3. n = IF v = 10 THEN 2 ELSE 1
    <2>1. 1 < n => ~Fits(v, 1)
      BY <1>1
    <2>2. 2 < n => ~Fits(v, 2)
      BY <1>1
    <2> QED BY <1>1, <1>2, <2>1, <2>2
  <1>4. \A k \in 1..n : Decimal(v)[k] = Digit((v \div Power(10, n - k)) % 10)
    <2>1. n \in Nat
      BY <1>1
    <2>2. \A k \in 1..n : Padded(v, 10, n)[k] = Digit((v \div Power(10, n - k)) % 10)
      BY <2>1, PaddedCharacters
    <2> QED BY <2>2 DEF Decimal, n
  <1>5. Digit(0) = "0" /\ Digit(1) = "1"
    BY DEF Digit, Digits
  <1>6. CASE v # 10
    <2>1. v \in 1..9 /\ v % 10 = v /\ v \in Nat /\ 1 \in 1..n /\ n - 1 = 0
      BY <1>3, <1>6
    <2>2. Decimal(v)[1] = Digit(v)
      BY <1>4, <2>1, QuotientByOne
    <2>3. v \in 0..15 /\ 0 \in 0..15 /\ v # 0
      BY <2>1
    <2>4. Digit(v) # Digit(0)
      BY <2>3, DigitsDiffer
    <2> QED BY <1>3, <1>5, <1>6, <2>2, <2>4 DEF n
  <1>7. CASE v = 10
    <2>1. 1 \in 1..n /\ 2 \in 1..n /\ n - 1 = 1 /\ n - 2 = 0
      BY <1>3, <1>7
    <2>2. (10 \div 10) % 10 = 1 /\ (10 \div 1) % 10 = 0
      OBVIOUS
    <2>3. Decimal(v)[1] = Digit(1) /\ Decimal(v)[2] = Digit(0)
      BY <1>4, <1>7, <2>1, <2>2, SmallPowers
    <2> QED BY <1>3, <1>5, <1>7, <2>3 DEF n
  <1> QED BY <1>6, <1>7

\* The text of parts that are what splitFloat has to return.
LEMMA SplitReadsBack ==
    ASSUME NEW a, NEW f, IsSplit(f, a)
    PROVE  LET text == (Decimal(f.integral) \o Fraction(f.decimal, Places)) \o Exponent(f.exponent)
               r    == ReadFloat(text)
           IN  /\ r.exponent # 0 => OneDigitOrTen(text)
               /\ IsClose(r, a)
  <1> DEFINE i == f.integral
             d == f.decimal
             e == f.exponent
             T == Power(10, Places)
             D == Decimal(i)
             text == (D \o Fraction(d, Places)) \o Exponent(e)
             r == ReadFloat(text)
  <1>1. /\ i \in Nat /\ i < Power(10, 15) /\ d \in 0..(T - 1) /\ e \in -400..400
        /\ (e # 0 => i \in 1..10) /\ IsClose([mantissa |-> i * T + d, exponent |-> e], a)
    BY DEF IsSplit
  <1>2. d \in Nat /\ d < T /\ Places \in Nat /\ T \in Nat \ {0}
    <2>1. Places \in Nat /\ T \in Nat \ {0}
      BY FormatAssumption, SmallPowers
    <2> HIDE DEF T, d
    <2> QED BY <1>1, <2>1
  <1> HIDE DEF i, d, e
  <1>3. PICK Y : /\ IsText(Y) /\ ReadSigned(Y) = e
                 /\ (Exponent(e) = <<>> /\ Y = <<>>) \/ Exponent(e) = <<"e">> \o Y
    BY <1>1, ExponentShows
  <1>4. PICK q \in 0..Places :
            /\ Fraction(d, Places) = <<".">> \o SubSeq(Padded(d, 10, Places), 1, q)
            /\ d = Power(10, Places - q) * (d \div Power(10, Places - q))
    BY <1>2, FractionShows
  <1> DEFINE S == SubSeq(Padded(d, 10, Places), 1, q)
             X == Exponent(e)
  <1>5. /\ IsText(S) /\ Len(S) = q /\ \A k \in 1..q : IsDigit(S[k])
        /\ ReadDigits(D \o S, 10) = i * Power(10, q) + (d \div Power(10, Places - q))
    BY <1>1, <1>2, JoinedDigitsRead, SMTT(30)
  <1>6. IsText(D) /\ Len(D) = Length(i) /\ Length(i) \in 1..15 /\ \A k \in 1..Length(i) : IsDigit(D[k])
    BY <1>1, DecimalCharacters
  <1>7. text = (D \o (<<".">> \o S)) \o X
    BY <1>4
  <1>8. (X = <<>> /\ Y = <<>>) \/ X = <<"e">> \o Y
    BY <1>3
  <1> HIDE DEF D, S, X, text
  <1>9. /\ Find(text, ".") = Len(D) + 1
        /\ r = [mantissa |-> Power(10, Places - Len(S)) * ReadDigits(D \o S, 10), exponent |-> ReadSigned(Y)]
        /\ Len(D) # 0 => text[1] = D[1]
    <2>1. /\ \A k \in 1..Len(D) : IsDigit(D[k])
          /\ \A k \in 1..Len(S) : IsDigit(S[k])
      BY <1>5, <1>6
    <2> DEFINE t == (D \o (<<".">> \o S)) \o X
               u == ReadFloat(t)
    <2>2. IsText(D) /\ IsText(S) /\ IsText(Y)
      BY <1>3, <1>5, <1>6
    <2>3. (X = <<>> /\ Y = <<>>) \/ X = <<"e">> \o Y
      BY <1>8
    <2>4. /\ Find(t, ".") = Len(D) + 1
          /\ u = [mantissa |-> Power(10, Places - Len(S)) * ReadDigits(D \o S, 10), exponent |-> ReadSigned(Y)]
          /\ Len(D) # 0 => t[1] = D[1]
      BY <2>1, <2>2, <2>3, CutsFloat
    <2>5. text = t
      BY <1>7
    <2>6. r = u
      BY <2>5
    <2> HIDE DEF t, u, r
    <2> QED BY <2>4, <2>5, <2>6
  <1>10. Power(10, Places - q) * (i * Power(10, q) + (d \div Power(10, Places - q))) = i * T + d
    <2> DEFINE p == Power(10, Places - q)
               s == Power(10, q)
               w == d \div p
    <2>1. p \in Nat \ {0} /\ s \in Nat \ {0}
      BY <1>2, PowerIsPositive
    <2>2. T = p * s
      <3> DEFINE m == Places - q
      <3>1. m \in Nat /\ q \in Nat /\ m + q = Places
        BY <1>2
      <3> HIDE DEF m
      <3>2. Power(10, m + q) = Power(10, m) * Power(10, q)
        BY <3>1, PowerOfSum
      <3> QED BY <3>1, <3>2 DEF m
    <2>3. d = p * w
      BY <1>4
    <2>4. w \in Nat
      <3> HIDE DEF p
      <3> QED BY <1>2, <2>1, Division
    <2> HIDE DEF p, s, w, T
    <2>5. p * (i * s + w) = i * (p * s) + p * w
      BY <1>1, <2>1, <2>4
    <2>6. p * (i * s + w) = i * T + d
      BY <2>2, <2>3, <2>5
    <2> QED BY <2>6 DEF p, s, w
  <1>11. r = [mantissa |-> i * T + d, exponent |-> e]
    BY <1>3, <1>5, <1>9, <1>10
  <1>12. IsClose(r, a)
    BY <1>1, <1>11
  <1>13. ASSUME r.exponent # 0 PROVE OneDigitOrTen(text)
    <2>1. e # 0 /\ i \in 1..10
      BY <1>1, <1>11, <1>13
    <2>2. /\ i # 10 => Length(i) = 1 /\ D[1] # "0"
          /\ i = 10 => Length(i) = 2 /\ D[1] = "1" /\ D[2] = "0"
      BY <2>1, LeadingDigits DEF D
    <2>3. text[1] = D[1] /\ Find(text, ".") = Len(D) + 1 /\ Len(D) = Length(i)
      BY <1>6, <1>9
    <2>4. CASE i # 10
      BY <2>2, <2>3, <2>4 DEF OneDigitOrTen
    <2>5. CASE i = 10
      <3>1. text[2] = D[2]
        <4>1. 2 \in 1..Len(D) /\ IsText(<<".">> \o S)
          <5>1. IsText(<<".">>)
            BY Short
          <5>2. IsText(<<".">> \o S)
            BY <1>5, <5>1, Joined
          <5>3. 2 \in 1..Len(D)
            BY <2>2, <2>3, <2>5
          <5> QED BY <5>2, <5>3
        <4>2. IsText(D) /\ IsText(X)
          BY <1>6, ExponentIsText DEF X
        <4>3. /\ Len(D \o (<<".">> \o S)) = Len(D) + Len(<<".">> \o S)
              /\ (D \o (<<".">> \o S))[2] = D[2]
          BY <4>1, <4>2, Joining
        <4>4. IsText(D \o (<<".">> \o S)) /\ Len(<<".">> \o S) \in Nat /\ Len(D) \in Nat
          BY <4>1, <4>2, Joined, TextLength
        <4> DEFINE b == D \o (<<".">> \o S)
        <4>5. 2 \in 1..Len(b)
          BY <4>1, <4>3, <4>4
        <4> HIDE DEF b
        <4>6. (b \o X)[2] = b[2]
          BY <4>2, <4>4, <4>5, Joining DEF b
        <4> QED BY <1>7, <4>3, <4>6 DEF b
      <3> QED BY <2>2, <2>3, <2>5, <3>1 DEF OneDigitOrTen
    <2> QED BY <2>4, <2>5
  <1> QED BY <1>12, <1>13 DEF text, D, i, d, e

\* Every float, over all its decades and whatever its casts add.
LEMMA FloatsReadBack ==
    ASSUME NEW a, IsFloat(a), a.negative \in BOOLEAN
    PROVE  FloatReadsBack(a)
  <1> DEFINE f == splitFloat(a)
             D == Decimal(f.integral)
             F == Fraction(f.decimal, Places)
             X == Exponent(f.exponent)
             s == (D \o F) \o X
             text == FloatText(a, <<>>)
             IsRead(t) == /\ ReadFloat(t).exponent # 0 => OneDigitOrTen(t)
                         /\ IsClose(ReadFloat(t), a)
  <1>1. IsSplit(f, a)
    BY SplitsFloat
  <1> HIDE DEF f
  <1>2. IsRead(s)
    BY <1>1, SplitReadsBack
  <1>3. Asked(<<>>) = Places
    BY DEF Asked
  <1>4. text = ((Sign(a.negative) \o D) \o F) \o X
    BY <1>3 DEF FloatText, f
  <1>5. FloatReadsBack(a) <=> IF a.negative THEN text # <<>> /\ text[1] = "-" /\ IsRead(Tail(text)) ELSE IsRead(text)
    BY DEF FloatReadsBack
  <1>6. IsText(D) /\ IsText(F) /\ IsText(X)
    <2>1. Places \in Int
      BY FormatAssumption
    <2> QED BY <2>1, DecimalIsText, FractionIsText, ExponentIsText
  <1> HIDE DEF D, F, X, text, IsRead
  <1>7. IsText(D \o F) /\ IsText(s)
    BY <1>6, Joined
  <1>8. CASE a.negative
    <2> DEFINE m == <<"-">>
    <2>1. IsText(m) /\ Sign(a.negative) = m
      BY <1>8, Short DEF Sign
    <2> HIDE DEF m
    <2>2. (m \o D) \o F = m \o (D \o F)
      BY <1>6, <2>1, JoinTwice
    <2> DEFINE B == D \o F
    <2>6. IsText(B)
      BY <1>7
    <2> HIDE DEF B
    <2>7. (m \o B) \o X = m \o (B \o X)
      BY <1>6, <2>1, <2>6, JoinTwice
    <2>3. (m \o (D \o F)) \o X = m \o s
      BY <2>7 DEF B
    <2>4. text = m \o s
      BY <1>4, <2>1, <2>2, <2>3
    <2> HIDE DEF s
    <2>5. Tail(text) = s /\ text[1] = "-" /\ text # <<>>
      BY <1>7, <2>4, TailJoined DEF m
    <2> QED BY <1>2, <1>5, <1>8, <2>5
  <1>9. CASE ~a.negative
    <2>1. Sign(a.negative) \o D = D
      BY <1>6, <1>9, JoinEmpty DEF Sign
    <2>2. text = s
      BY <1>4, <2>1
    <2> HIDE DEF s
    <2> QED BY <1>2, <1>5, <1>9, <2>2
  <1> QED BY <1>8, <1>9

-----------------------------------------------------------------------------
(* Reading back *)

\* Whatever is printed.
LEMMA ArgumentReadsBack ==
    ASSUME NEW a, IsArgument(a)
    PROVE  ReadsBack(a)
  <1>1. CASE a.kind \in {"int", "error"}
    <2>1. /\ a.bits \in Nat \ {0} /\ a.bits % 8 = 0
          /\ a.value \in -Power(2, a.bits - 1)..(Power(2, a.bits) - 1)
          /\ a.bits <= 32 \/ (a.value < Power(10, 15) /\ -a.value < Power(10, 15))
      BY <1>1 DEF IsArgument
    <2>2. a.bits - 1 \in Nat /\ a.bits \in Nat /\ 2 \in Nat \ {0}
      BY <2>1
    <2>3. Power(2, a.bits - 1) \in Nat /\ Power(2, a.bits) \in Nat
      BY <2>2, PowerIsPositive
    <2>4. a.value \in Int
      BY <2>1, <2>3
    <2>5. a.value < Power(10, 15) /\ -a.value < Power(10, 15)
      <3>1. CASE a.bits <= 32
        <4>1. a.bits \in 1..32
          BY <2>1, <3>1
        <4> QED BY <2>1, <4>1, WidthFits
      <3>2. CASE a.value < Power(10, 15) /\ -a.value < Power(10, 15)
        BY <3>2
      <3> QED BY <2>1, <3>1, <3>2
    <2>6. IntReadsBack(a)
      BY <2>1, <2>2, <2>4, <2>5, IntegersReadBack
    <2> QED BY <1>1, <2>6 DEF ReadsBack
  <1>2. CASE a.kind = "float"
    <2>1. IsFloat(a) /\ a.negative \in BOOLEAN
      BY <1>2 DEF IsArgument, IsFloat
    <2>2. FloatReadsBack(a)
      BY <2>1, FloatsReadBack
    <2> QED BY <1>2, <2>2, Zenon DEF ReadsBack
  <1>3. CASE a.kind \notin {"int", "error", "float"}
    BY <1>3, Zenon DEF ReadsBack
  <1> QED BY <1>1, <1>2, <1>3

-----------------------------------------------------------------------------
\* Every number that is printed reads back as the value it had: an integral of
\* any width, the least value of its type excepted, and every float, large or
\* small, whatever its casts add, up to half a unit of the last place printed and
\* that.
THEOREM FormatterReadsBack == FormatSpec => []NumbersReadBack
  <1> DEFINE I == call \in Calls
  <1>1. FormatInit => I
    BY DEF FormatInit
  <1>2. I /\ [FormatNext]_formatVars => I'
    BY CallIsFixed
  <1>3. I => NumbersReadBack
    <2> SUFFICES ASSUME call \in Calls, NEW i \in DOMAIN call.args
                 PROVE  ReadsBack(call.args[i])
      BY DEF NumbersReadBack
    <2> DEFINE a == call.args[i]
    <2>1. IsCall(call)
      BY FormatAssumption
    <2>2. IsArgument(a)
      <3>1. call.args \in Seq(ToSet(call.args)) /\ \A x \in ToSet(call.args) : IsArgument(x)
        BY <2>1 DEF IsCall
      <3>2. a \in ToSet(call.args)
        BY DEF ToSet
      <3> QED BY <3>1, <3>2
    <2> HIDE DEF a
    <2>3. ReadsBack(a)
      BY <2>2, ArgumentReadsBack
    <2> QED BY <2>3 DEF a
  <1> HIDE DEF I
  <1> QED BY <1>1, <1>2, <1>3, PTL DEF FormatSpec
=============================================================================
