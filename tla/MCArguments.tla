---------------------------- MODULE MCArguments ----------------------------
(***************************************************************************)
(* Signatures, foreign packets and orders of evaluation for TLC.           *)
(***************************************************************************)
EXTENDS Arguments

CONSTANT MaxArgs    \* bound: the arguments of a command

T(kind, n, el) == [kind |-> kind, n |-> n, el |-> el]
Byte  == T("byte", 0, 1)
Pair  == T("byte", 0, 2)     \* a packed struct
Word  == T("word", 0, 2)
Str   == T("str", 3, 1)
Bin   == T("bin", 3, 1)
Array == T("array", 2, 2)
Typed == T("typed", 0, 2)
View  == T("view", 0, 1)
Buf   == T("buf", 2, 1)

Sent == {Byte, Word, Str, Bin, Array, Typed}

\* What a receiver may declare for what is sent: it can hold it, but for a
\* word in the place of a byte.
Declared(t) == CASE t = Byte -> {Byte, Word}
                 [] t = Word -> {Word, Pair}
                 [] t \in {Str, Bin} -> {t, View, Buf}
                 [] t \in {Array, Typed} -> {t, View}

MCSignatures ==
    UNION {{[sent |-> s, received |-> r] :
                r \in {q \in SeqOf(UNION {Declared(t) : t \in Range(s)}, Len(s)) :
                           /\ Len(q) = Len(s)
                           /\ \A i \in DOMAIN s : q[i] \in Declared(s[i])}} :
           s \in SeqOf(Sent, MaxArgs)}

MCForeign == SeqOf({0, 2, 3}, 4)

\* From left to right or from right to left, as compilers do.
MCOrders == [n \in 0..MaxArgs |-> {[i \in 1..n |-> i], [i \in 1..n |-> n + 1 - i]}]
=============================================================================
