------------------------------ MODULE Numbers ------------------------------
(***************************************************************************)
(* What the formatters of tools/zbm_formatter.hpp are given, and what they *)
(* print of an argument.  Text is a sequence of characters.  An argument   *)
(* is a record:                                                            *)
(*   int    a value of so many bits, signed or not; also an enumeration or *)
(*          a pointer                                                      *)
(*   float  sig / 10 ^ (Places + 1) * 10 ^ decade, with sig = 0 or one     *)
(*          digit before the point, and a sign.  A value that is computed  *)
(*          and cut to a float again is another one than was computed: by  *)
(*          how much depends on its bits, of which the model knows nothing *)
(*          but a bound (Roundoff), so that it may be any amount up to it, *)
(*          which the argument names (casts)                               *)
(*   bytes  an array, std::array or span of bytes                          *)
(*   chars  a char, a string or a view                                     *)
(*   error  a std::expected without a value, its error an int              *)
(*                                                                         *)
(* A definition marked "slip" is a mistake the code could have made, kept  *)
(* beside what it would break; nothing of the specification uses it.       *)
(***************************************************************************)
EXTENDS Integers, SequencesExt

CONSTANTS Places,           \* decimal places of a float, 9 in the code
          posExpThreshold,  \* from this decade on there is an exponent, 7
          negExpThreshold,  \* below this one too, -5
          Roundoff          \* what a cast to float changes a significand by, at
                            \* most: less than 6000 with 9 places, 2 ^ -24 of it

\* base ^ n, as a recursive function.
Power(base, n) == LET power[k \in Nat] == IF k = 0 THEN 1 ELSE base * power[k - 1]
                  IN  power[n]

\* The significand of 1, 10 and so on.
One == Power(10, Places + 1)

\* By how many decades the steps of normalizeFloat move the point.
Steps == {256, 128, 64, 32, 16, 8, 4, 2, 1}

\* An integral is as wide as so many bytes, and if it is wider than 4 of them
\* its decimal digits fit the buffer on the stack.  A float has the decades of
\* type float and one decimal place more than is printed; zero has no sign.
IsArgument(a) == /\ a.kind \in {"int", "float", "bytes", "chars", "error"}
                 /\ a.kind \in {"int", "error"} =>
                        /\ a.bits \in Nat \ {0} /\ a.bits % 8 = 0
                        /\ a.value \in -Power(2, a.bits - 1)..(Power(2, a.bits) - 1)
                        /\ a.bits <= 32 \/ (a.value < Power(10, 15) /\ -a.value < Power(10, 15))
                 /\ a.kind = "float" =>
                        /\ a.negative \in BOOLEAN /\ a.decade \in -45..38
                        /\ (a.sig = 0 /\ ~a.negative) \/ a.sig \in One..(10 * One - 1)
                        /\ a.casts \in [Steps -> -Roundoff..Roundoff]
                 /\ a.kind = "bytes" => a.bytes \in Seq(0..255)
                 /\ a.kind = "chars" => a.text \in Seq(STRING)

Digits == <<"0", "1", "2", "3", "4", "5", "6", "7", "8", "9", "a", "b", "c", "d", "e", "f">>
Digit(d) == Digits[d + 1]

\* The lowest n digits of v, leading zeros included.
Padded(v, base, n) == [i \in 1..n |-> Digit((v \div Power(base, n - i)) % base)]

\* How many digits a number has, the fewest it fits into; one if it is zero.
Fits(v, n) == n = 15 \/ v < Power(10, n)
Length(v) == CHOOSE n \in 1..15 : Fits(v, n) /\ \A k \in 1..(n - 1) : ~Fits(v, k)
Decimal(v) == Padded(v, 10, Length(v))

Sign(negative) == IF negative THEN <<"-">> ELSE <<>>

\* The negation of the least value of a signed type is that value again, whose
\* remainders are negative: characters that are no digits.
Garbled(v) == LET d == Decimal(v) IN [i \in DOMAIN d |-> IF d[i] = "0" THEN "0" ELSE "?"]

\* formatter_t of an integral; a format without x prints upper case, which is
\* the same here.
IntText(a, spec) ==
    CASE spec # <<>>                    -> <<"0", "x">> \o Padded(a.value % Power(2, a.bits), 16, a.bits \div 4)
      [] spec = <<>> /\ a.value >= 0    -> Decimal(a.value)
      [] spec = <<>> /\ a.value < 0     ->
             <<"-">> \o (IF a.value = -Power(2, a.bits - 1) THEN Garbled(-a.value) ELSE Decimal(-a.value))

\* hi, lo and a blank for each byte.
BytesText(bytes) == FlattenSeq([i \in DOMAIN bytes |-> Append(Padded(bytes[i], 16, 2), " ")])
-----------------------------------------------------------------------------
\* The decade a value is in: a cast may have taken it across a power of ten.
Decade(v) == IF v.sig >= 10 * One THEN v.decade + 1 ELSE IF v.sig < One THEN v.decade - 1 ELSE v.decade

\* The powers of ten that a cast does not take a value below: 1 is a float, and
\* the floats next to the others, 1e-15f and so on, are above them.
Firm == {-15, -7, -3, -1, 0}

\* v cut to a float.
Cast(v, off) ==
    LET least == IF v.sig >= 10 * One THEN 10 * One ELSE One
        stays == Decade(v) \in Firm /\ v.sig >= least /\ v.sig + off < least
    IN  [v EXCEPT !.sig = IF stays THEN least ELSE v.sig + off]

\* Its point moved by so many decades, which go into the exponent.
Shifted(v, k) == [sig |-> v.sig, decade |-> v.decade - k, exponent |-> v.exponent + k]

\* One step takes so many decades out of a large value, or a small one.
Less(v, k, casts) == IF Decade(v) >= k THEN Cast(Shifted(v, k), casts[k]) ELSE v
More(v, k, casts) == IF Decade(v) < 1 - k THEN Cast(Shifted(v, -k), casts[k]) ELSE v

\* All steps.
LessOfAll(v, c) == Less(Less(Less(Less(Less(Less(Less(Less(Less(
                       v, 256, c), 128, c), 64, c), 32, c), 16, c), 8, c), 4, c), 2, c), 1, c)
MoreOfAll(v, c) == More(More(More(More(More(More(More(More(More(
                       v, 256, c), 128, c), 64, c), 32, c), 16, c), 8, c), 4, c), 2, c), 1, c)

IsLarge(a) == a.sig # 0 /\ a.decade >= posExpThreshold
IsSmall(a) == a.sig # 0 /\ (a.decade < -negExpThreshold \/ (a.decade = -negExpThreshold /\ a.sig = One))

\* What is left of a value, and the exponent taken out of it.
normalizeFloat(a) ==
    LET value == [sig |-> a.sig, decade |-> a.decade, exponent |-> 0]
    IN  CASE IsLarge(a) -> LessOfAll(value, a.casts)
          [] IsSmall(a) -> MoreOfAll(value, a.casts)
          [] OTHER -> value

\* A value in units of one more decimal place than is printed.
Units(v) == IF v.decade >= 0 THEN v.sig * Power(10, v.decade) ELSE v.sig \div Power(10, -v.decade)

\* slip: a value of 9.99.. is rounded up to 0.
RoundedWithoutCarry(units, exponent) ==
    [integral |-> units \div One,
     decimal  |-> ((units + 5) \div 10) % Power(10, Places), exponent |-> exponent]
\* Rounded half up to the places printed, the carry passed on.
Rounded(units, exponent) ==
    LET rounded  == (units + 5) \div 10
        integral == rounded \div Power(10, Places)
        carries  == integral > units \div One /\ exponent # 0 /\ integral >= 10
    IN  [integral |-> IF carries THEN 1 ELSE integral,
         decimal  |-> rounded % Power(10, Places),
         exponent |-> IF carries THEN exponent + 1 ELSE exponent]

splitFloat(a) == LET Split(v) == Rounded(Units(v), v.exponent)
                 IN  Split(normalizeFloat(a))

\* The decimal places asked for by a format ".n"; all of them otherwise.
Asked(spec) == IF Len(spec) >= 2 /\ spec[1] = "." /\ \E d \in 0..9 : spec[2] = Digit(d)
               THEN CHOOSE d \in 0..9 : spec[2] = Digit(d) ELSE Places

\* All places, without the zeros at the end unless there is nothing else; or
\* the first n, which are cut and not rounded.
Fraction(decimal, n) ==
    LET all == Padded(decimal, 10, Places)
        last == CHOOSE i \in 0..Places : /\ i = 0 \/ all[i] # "0"
                                         /\ \A j \in (i + 1)..Places : all[j] = "0"
    IN  CASE n = 0 -> <<>>
          [] n = Places -> <<".">> \o (IF decimal = 0 THEN all ELSE SubSeq(all, 1, last))
          [] OTHER -> <<".">> \o SubSeq(all, 1, n)

Exponent(e) == IF e = 0 THEN <<>>
               ELSE <<"e">> \o Sign(e < 0) \o Decimal(IF e < 0 THEN -e ELSE e)

FloatText(a, spec) ==
    LET InText(f) == Sign(a.negative) \o Decimal(f.integral) \o Fraction(f.decimal, Asked(spec))
                                    \o Exponent(f.exponent)
    IN  InText(splitFloat(a))
-----------------------------------------------------------------------------
Text(a, spec) == CASE a.kind = "int"   -> IntText(a, spec)
                   [] a.kind = "float" -> FloatText(a, spec)
                   [] a.kind = "bytes" -> BytesText(a.bytes)
                   [] a.kind = "chars" -> a.text
                   [] a.kind = "error" -> <<"E", ":">> \o IntText(a, spec)

\* The length a formatter reports for its text: that of "E:" is taken for four.
Reported(a, text) == Len(text) + (IF a.kind = "error" THEN 2 ELSE 0)
-----------------------------------------------------------------------------
(* Reading back what was printed *)

\* The first place of a character in a text, or the one behind its end.
Find(text, c) == CHOOSE i \in 1..(Len(text) + 1) :
                     /\ i <= Len(text) => text[i] = c
                     /\ \A j \in 1..(i - 1) : text[j] # c

\* The number that digits of a base stand for.
ReadDigits(text, base) ==
    LET number[i \in 0..Len(text)] ==
            IF i = 0 THEN 0
            ELSE number[i - 1] * base + (CHOOSE d \in 0..(base - 1) : Digit(d) = text[i])
    IN  number[Len(text)]

ReadSigned(text) == IF text # <<>> /\ text[1] = "-" THEN -ReadDigits(Tail(text), 10)
                                                     ELSE ReadDigits(text, 10)

\* What is printed of an integer is its value, the least one excepted, and in
\* hexadecimal its bits (formatter_t of an integral).
IntReadsBack(a) ==
    /\ a.value # -Power(2, a.bits - 1) => ReadSigned(IntText(a, <<>>)) = a.value
    /\ ReadDigits(SubSeq(IntText(a, <<"x">>), 3, 2 + a.bits \div 4), 16) = a.value % Power(2, a.bits)

\* mantissa * 10 ^ exponent / 10 ^ Places, read from a text without a sign:
\* what is before the point, behind it, and behind the e.
ReadFloat(text) ==
    LET Cut(p, e) == LET places == IF p < e THEN e - 1 - p ELSE 0
                     IN  [mantissa |-> Power(10, Places - places) *
                              ReadDigits(SubSeq(text, 1, p - 1) \o SubSeq(text, p + 1, e - 1), 10),
                          exponent |-> ReadSigned(SubSeq(text, e + 1, Len(text)))]
        CutAt(e) == Cut(Find(SubSeq(text, 1, e - 1), "."), e)
    IN  CutAt(Find(text, "e"))

\* Is the number r, read from a text, the value of a up to half a unit of the
\* last place?  In a value whose exponent is taken out, six casts at most add up:
\* no float has the decades of the other three steps.
IsClose(r, a) ==
    LET casts  == IF IsLarge(a) \/ IsSmall(a) THEN 12 * Roundoff ELSE 0
        Off(p) == IF p < 0 THEN r.mantissa = a.sig * Power(10, -p)
                  ELSE 2 * (r.mantissa * Power(10, p) - a.sig) \in -(Power(10, p) + casts)..(Power(10, p) + casts)
    IN  IF a.sig = 0 THEN r.mantissa = 0 ELSE Off(r.exponent - a.decade + 1)

\* Before an exponent there is one digit, not 0, before the point; or, if a cast
\* came out at 10, that.
OneDigitOrTen(text) == \/ Find(text, ".") = 2 /\ text[1] # "0"
                       \/ Find(text, ".") = 3 /\ text[1] = "1" /\ text[2] = "0"

\* What is printed of a float, behind its sign, is the value itself, whatever its
\* decade, up to half a unit of its last place and the roundoff of its casts.
FloatReadsBack(a) ==
    LET Reads(text)  == LET r == ReadFloat(text)
                        IN  (r.exponent # 0 => OneDigitOrTen(text)) /\ IsClose(r, a)
        Signed(text) == IF a.negative THEN text # <<>> /\ text[1] = "-" /\ Reads(Tail(text))
                                      ELSE Reads(text)
    IN  Signed(FloatText(a, <<>>))

ReadsBack(a) == CASE a.kind \in {"int", "error"} -> IntReadsBack(a)
                  [] a.kind = "float" -> FloatReadsBack(a)
                  [] OTHER -> TRUE
=============================================================================
