----------------------------- MODULE Formatter -----------------------------
(***************************************************************************)
(* format_to of tools/zbm_formatter.hpp with a BufferFormatter: a format   *)
(* is read once from left to right, its text and the text of the arguments *)
(* it names are put into a buffer, what does not fit is dropped.           *)
(*                                                                         *)
(* A step is one round of the loop of format_to.  There are two overloads: *)
(* for a string that ends with 0 ("cstr"), which FMT_PRINT uses, and for a *)
(* std::string_view ("sv"), which differs in where it goes on after a      *)
(* placeholder.  A format is a sequence of characters, End stands for the  *)
(* 0 behind them.                                                          *)
(***************************************************************************)
EXTENDS Numbers

CONSTANT Calls  \* of format_to: [overload, format, args, N, autoZero]

VARIABLES call,     \* the parameters, and the size of the buffer
          pos,      \* pStr or b: the character to look at
          pBegin,   \* where the text that is not put yet begins
          prev,     \* the character before pos
          arg,      \* arguments taken by placeholders without a number
          res,      \* the length to be returned
          mem,      \* what was written to the buffer
          ended,    \* the 0 was written behind it
          outcome   \* "running", "done", "error" or "undefined"

formatVars == <<call, pos, pBegin, prev, arg, res, mem, ended, outcome>>
-----------------------------------------------------------------------------
End   == ""
Open  == "{"
Close == "}"

\* What format_to is called with, and the size of the buffer.
IsCall(c) == /\ c.overload \in {"cstr", "sv"}
             /\ c.format \in Seq(STRING \ {End})
             /\ c.args \in Seq(ToSet(c.args)) /\ \A a \in ToSet(c.args) : IsArgument(a)
             /\ c.N \in Nat /\ c.autoZero \in BOOLEAN
             /\ c.autoZero => c.N > 0

ASSUME FormatAssumption == /\ Places \in Nat \ {0}
                           /\ Roundoff \in Nat /\ 100 * Roundoff <= One
                           /\ posExpThreshold \in 1..14 /\ negExpThreshold \in Nat
                           /\ \A c \in Calls : IsCall(c)

At(i) == IF i <= Len(call.format) THEN call.format[i] ELSE End
Piece(from, to) == SubSeq(call.format, from, to - 1)

IsDigit(c) == \E d \in 0..9 : c = Digit(d)
\* The first place from i on whose character satisfies a condition, or the end.
First(i, Test(_)) == CHOOSE j \in i..(Len(call.format) + 1) :
                         /\ Test(At(j)) \/ At(j) = End
                         /\ \A k \in i..(j - 1) : ~Test(At(k))

\* slip: the byte for the 0 is not kept free.
RoomToTheEnd(c) == c.N
\* dstEnd - dst of an empty buffer.
Room(c) == IF c.autoZero THEN c.N - 1 ELSE c.N

\* All of BufferFormatter's ways to put text clip it at dstEnd.
Put(text) == LET s == mem \o text
             IN  mem' = SubSeq(s, 1, IF Len(s) < Room(call) THEN Len(s) ELSE Room(call))

Fails == outcome' = "error" /\ UNCHANGED <<call, pos, pBegin, prev, res, ended>>
-----------------------------------------------------------------------------
FormatInit == /\ call \in Calls
              /\ pos = 1 /\ pBegin = 1 /\ prev = End /\ arg = 0 /\ res = 0
              /\ mem = <<>> /\ ended = FALSE /\ outcome = "running"

PlainChar ==
    /\ outcome = "running" /\ At(pos) \notin {Open, End}
    /\ pos' = pos + 1 /\ prev' = At(pos)
    /\ UNCHANGED <<call, pBegin, arg, res, mem, ended, outcome>>

\* slip: the backslash is printed too.
PutsBackslash(from, to) == Piece(from, to)
\* The text before a brace behind a backslash, without the backslash.
BeforeEscape(from, to) == Piece(from, to - 1)

EscapedBrace ==
    /\ outcome = "running" /\ At(pos) = Open /\ prev = "\\"
    /\ Put(BeforeEscape(pBegin, pos))
    /\ res' = res + (pos - 1 - pBegin)
    /\ pBegin' = pos /\ pos' = pos + 1 /\ prev' = Open
    /\ UNCHANGED <<call, arg, ended, outcome>>

\* What follows the brace at pos: a number, or the next argument; a colon; and
\* a specification up to the closing brace.  A number in the format is a size_t,
\* here it has no bound: one that wraps around to that of an argument is left
\* out.  A view is read up to its closing brace or a 0, of which the code does
\* not say that there is one behind it; here there is.
NumberEnd == First(pos + 1, LAMBDA c : ~IsDigit(c))
Explicit  == NumberEnd > pos + 1
Target    == IF Explicit THEN ReadDigits(Piece(pos + 1, NumberEnd), 10) ELSE arg
SpecBegin == IF At(NumberEnd) = ":" THEN NumberEnd + 1 ELSE NumberEnd
SpecEnd   == First(SpecBegin, LAMBDA c : c = Close)

AtPlaceholder == outcome = "running" /\ At(pos) = Open /\ prev # "\\"
\* if constexpr (sizeof...(args) == 0): nothing is put then.
NoArguments   == call.overload = "cstr" /\ call.args = <<>>

PlaceholderWithoutArguments == AtPlaceholder /\ NoArguments /\ Fails /\ UNCHANGED <<arg, mem>>

\* InvalidFormatArgumentNumber, NotEnoughFormatArguments or InvalidFormatString.
BadPlaceholder ==
    /\ AtPlaceholder /\ ~NoArguments
    /\ Target >= Len(call.args) \/ At(SpecEnd) # Close
    /\ Put(Piece(pBegin, pos))
    /\ arg' = IF Explicit THEN arg ELSE arg + 1
    /\ Fails

\* cstr comes back to the closing brace and steps over it at the end of the
\* loop; sv is behind it already and steps over the next character too.
NextPos(c, close) == IF c.overload = "cstr" THEN close + 1 ELSE close + 2

Placeholder ==
    /\ AtPlaceholder /\ ~NoArguments
    /\ Target < Len(call.args) /\ At(SpecEnd) = Close
    /\ LET a    == call.args[Target + 1]
           Prints(text) == /\ Put(Piece(pBegin, pos) \o text)
                           /\ res' = res + (pos - pBegin) + Reported(a, text)
       IN  Prints(Text(a, Piece(SpecBegin, SpecEnd)))
    /\ arg' = IF Explicit THEN arg ELSE arg + 1
    /\ pBegin' = SpecEnd + 1
    /\ pos' = NextPos(call, SpecEnd)
    /\ prev' = At(NextPos(call, SpecEnd) - 1)
    /\ outcome' = IF pos' > Len(call.format) + 1 THEN "undefined" ELSE "running"
    /\ UNCHANGED <<call, ended>>

Finish ==
    /\ outcome = "running" /\ At(pos) = End
    /\ Put(Piece(pBegin, pos))
    /\ res' = res + (pos - pBegin)
    /\ ended' = call.autoZero
    /\ outcome' = "done"
    /\ UNCHANGED <<call, pos, pBegin, prev, arg>>

FormatNext == \/ PlainChar \/ EscapedBrace
              \/ PlaceholderWithoutArguments \/ BadPlaceholder \/ Placeholder
              \/ Finish

FormatSpec == FormatInit /\ [][FormatNext]_formatVars
-----------------------------------------------------------------------------
(* What a format stands for, by its grammar: characters, braces behind a     *)
(* backslash, and placeholders {[number][:][specification]}.                 *)

\* The closing brace of a placeholder at p, or the place behind the end; and
\* where the digits at the front of the placeholder end.
CloseOf(f, p)   == CHOOSE j \in (p + 1)..(Len(f) + 1) : /\ j <= Len(f) => f[j] = Close
                                                       /\ \A k \in (p + 1)..(j - 1) : f[k] # Close
DigitsEnd(f, p) == CHOOSE e \in (p + 1)..CloseOf(f, p) : /\ e < CloseOf(f, p) => ~IsDigit(f[e])
                                                        /\ \A k \in (p + 1)..(e - 1) : IsDigit(f[k])

Malformed == [ok |-> FALSE, text |-> <<>>, length |-> 0]
Empty     == [ok |-> TRUE, text |-> <<>>, length |-> 0]

\* The placeholder at p, when those before it took n arguments.
PlaceholderAt(c, p, n) ==
    LET close == CloseOf(c.format, p)
        e     == DigitsEnd(c.format, p)
        which == IF e = p + 1 THEN n ELSE ReadDigits(SubSeq(c.format, p + 1, e - 1), 10)
        colon == e < close /\ c.format[e] = ":"
        spec  == SubSeq(c.format, IF colon THEN e + 1 ELSE e, close - 1)
        Prints(a, text) == [ok |-> TRUE, text |-> text, length |-> Reported(a, text),
                            next |-> close + 1, arg |-> IF e = p + 1 THEN n + 1 ELSE n]
    IN  IF close > Len(c.format) \/ which >= Len(c.args) THEN Malformed
        ELSE Prints(c.args[which + 1], Text(c.args[which + 1], spec))

\* What stands at a place of the format, and where the next begins.
Standing(c, p, n) ==
    LET Char(x, next) == [ok |-> TRUE, text |-> <<x>>, length |-> 1, next |-> next, arg |-> n]
    IN  CASE c.format[p] = "\\" /\ p < Len(c.format) /\ c.format[p + 1] = Open -> Char(Open, p + 2)
          [] c.format[p] = Open -> PlaceholderAt(c, p, n)
          [] OTHER -> Char(c.format[p], p + 1)

\* The text before what follows it, which may be malformed.
Followed(s, rest) == [ok     |-> rest.ok,
                      text   |-> s.text \o rest.text,
                      length |-> s.length + rest.length]

\* [ok, text, length] of the format from each place on, when n arguments are
\* taken.
Meanings(c) ==
    LET meaning[p \in 1..(Len(c.format) + 1)] ==
            [n \in Nat |->
                IF p > Len(c.format) THEN Empty
                ELSE IF ~Standing(c, p, n).ok THEN Malformed
                ELSE Followed(Standing(c, p, n),
                              meaning[Standing(c, p, n).next][Standing(c, p, n).arg])]
    IN  meaning
Meaning(c) == Meanings(c)[1][0]
-----------------------------------------------------------------------------
(* Properties *)

\* sv steps over the character behind each placeholder, so there has to be one.
EndsInText(c) == \/ c.overload = "cstr" \/ c.format = <<>>
                 \/ c.format[Len(c.format)] # Close

\* Whatever the format, reading never goes beyond the 0 at its end, not even
\* for a placeholder that is cut off there, and nothing is written beyond the
\* end of the buffer, the 0 behind the text included.  For views: if text
\* follows each placeholder, otherwise format_to runs past their end.
StaysInBounds ==
    /\ pos <= Len(call.format) + 1 /\ pBegin <= pos /\ outcome # "undefined"
    /\ Len(mem) + (IF ended THEN 1 ELSE 0) <= call.N

\* Every number that is printed reads back as the value it had: across all the
\* decades of a float, through the search for its exponent and the carry of
\* its rounding, up to half a unit of the last place, and up to the roundoff of
\* the casts that the search makes when it takes an exponent out.
NumbersReadBack == pos = 1 => \A i \in DOMAIN call.args : ReadsBack(call.args[i])

\* A character that begins no placeholder follows each placeholder of a view.
TextFollows(c) ==
    \/ c.overload = "cstr"
    \/ \A i \in 1..Len(c.format) :
           c.format[i] = Close => i < Len(c.format) /\ c.format[i + 1] # Open

\* format_to fails for just those formats that are malformed or name an
\* argument that is not there.  Otherwise what is in the buffer is the text the
\* format stands for, or as much of it as there is room for, and the whole
\* text's length is returned, that of the "E:" before an error counted as four.
\* For views: if text follows each placeholder.
FormatIsItsMeaning ==
    LET Agrees(m) == /\ outcome = "error" => ~m.ok
                     /\ outcome = "done" => /\ m.ok
                                            /\ IsPrefix(mem, m.text)
                                            /\ Len(mem) = Len(m.text) \/ Len(mem) = Room(call)
                                            /\ res = m.length
    IN  outcome \in {"error", "done"} => Agrees(Meaning(call))
=============================================================================
