------------------------------ MODULE MCTools ------------------------------
(***************************************************************************)
(* The ring buffer, the function object and the formatter of tools/ for    *)
(* TLC.  They share nothing, so that a behaviour uses one of them and      *)
(* leaves the others as they were made.                                    *)
(***************************************************************************)
EXTENDS RingBuffer, FixedFunction, Formatter
-----------------------------------------------------------------------------
(* All short formats, each with too few arguments and with enough, into    *)
(* buffers that are too small and large enough; and all kinds of numbers.  *)

MCAlphabet == {"a", "\\", "{", "}", ":", "x", "1"}
MCFormats(n) == UNION {[1..k -> MCAlphabet] : k \in 0..n}

Number(v)   == [kind |-> "int", bits |-> 8, value |-> v]
Chars(s) == [kind |-> "chars", text |-> s]
Code(v)  == [kind |-> "error", bits |-> 8, value |-> v]
Bytes(b) == [kind |-> "bytes", bytes |-> b]
Float(negative, sig, decade, casts) ==
    [kind |-> "float", negative |-> negative, sig |-> sig, decade |-> decade, casts |-> casts]

Call(overload, f, args, n, zero) ==
    [overload |-> overload, format |-> f, args |-> args, N |-> n, autoZero |-> zero]

\* All formats of up to 4 characters, and longer ones of whole pieces.
MCPieces == {<<"a">>, <<"\\", "{">>, <<"{", "}">>, <<"{", "1", ":", "x", "}">>, <<"{", "1", "1">>, <<":">>}
MCLong   == {FlattenSeq(p) : p \in [1..3 -> MCPieces]}
MCArgs   == {<<>>, <<Number(90)>>, <<Chars(<<"b">>), Code(7)>>, <<Bytes(<<171, 9>>), Number(0)>>}
MCShort  == {Call("cstr", f, <<Number(-5), Chars(<<"b", "c">>)>>, 5, TRUE) : f \in MCFormats(4) \cup MCLong}
MCRooms  == {Call("cstr", f, args, n, zero) :
                f \in MCFormats(2) \cup MCLong, args \in MCArgs, n \in {1, 4, 20}, zero \in BOOLEAN}

\* The formats the two overloads agree on: text follows each placeholder.
MCViewPieces == {<<"a">>, <<"\\", "{">>, <<"{", "}", "a">>, <<"{", "1", "}", "a">>, <<"{", ":", "x", "}", "a">>}
MCViews      == {Call("sv", FlattenSeq(p), args, n, TRUE) :
                    p \in UNION {[1..k -> MCViewPieces] : k \in 0..3}, args \in MCArgs, n \in {1, 4, 30}}

\* Every int of 8 bits, and floats of every length of their fraction: with a
\* carry into the next place, the next decade, and none, in decades on both sides
\* of each step of the normalization, whose casts are all exact, all off by as
\* much as they can be, or off to alternating sides.
MCSigs    == {10000, 10004, 10005, 12345, 19995, 50000, 90909, 99994, 99995, 99999}
MCDecades == {-45, -38, -33, -32, -31, -17, -16, -15, 15, 16, 31, 32, 33, 38} \cup -9..9
MCEven    == {256, 64, 16, 4, 1}
MCCasts   == {[k \in Steps |-> IF k \in MCEven THEN x ELSE y] : x, y \in {-Roundoff, 0, Roundoff}}
MCExact   == [k \in Steps |-> 0]
MCNumbers == {Number(v) : v \in -128..255}
             \cup {Float(FALSE, sig, d, c) : sig \in MCSigs, d \in MCDecades, c \in MCCasts}
             \cup {Float(TRUE, sig, d, MCExact) : sig \in MCSigs, d \in MCDecades}
             \cup {Float(FALSE, 0, 0, MCExact)}
MCSpecs   == {<<"{", "}">>, <<"{", ":", "x", "}">>, <<"{", ":", ".", "2", "}">>, <<"{", ":", ".", "0", "}">>}
MCPrints  == {Call("cstr", f, <<v>>, 12, TRUE) : f \in MCSpecs, v \in MCNumbers}

\* A call whose format is empty, for the behaviours that do not format.
MCNoCall == Call("cstr", <<>>, <<>>, 1, TRUE)

MCCalls == {MCNoCall} \cup MCShort \cup MCRooms \cup MCViews \cup MCPrints
-----------------------------------------------------------------------------
MCInit == /\ Init /\ FunctionInit /\ FormatInit
          /\ call = MCNoCall \/ N = 1

RingUntouched     == result = <<"none">>
FunctionUntouched == m_pTable = [f \in Functions |-> Nothing]
FormatUntouched   == call = MCNoCall /\ outcome = "running"

MCNext == \/ FunctionUntouched /\ FormatUntouched /\ Next /\ UNCHANGED <<functionVars, formatVars>>
          \/ RingUntouched /\ FormatUntouched /\ FunctionNext /\ UNCHANGED <<vars, formatVars>>
          \/ RingUntouched /\ FunctionUntouched /\ FormatNext /\ UNCHANGED <<vars, functionVars>>

MCSpec == MCInit /\ [][MCNext]_<<vars, functionVars, formatVars>>
=============================================================================
