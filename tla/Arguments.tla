----------------------------- MODULE Arguments -----------------------------
(***************************************************************************)
(* The arguments of a command on their way from one device to another:     *)
(* send_cmd_raw (impl/zbm_out_cmd.hpp) writes them one after the other     *)
(* with the serialize_to of their types (impl/zbm_str.hpp,                 *)
(* impl/zbm_serialize.hpp), cmd_to_arg_t and call_cmd                      *)
(* (impl/zbm_cluster.hpp) take them out of the packet again.  The receiver *)
(* also gets packets that nobody with this signature has sent.             *)
(*                                                                         *)
(* A type is a record: its kind, its capacity n (the N of the templates)   *)
(* and the size el of a raw value or of an element.  A value is the        *)
(* sequence of bytes of the object; where there is a length it is the      *)
(* first of them.  The kinds:                                              *)
(*   byte   not serializable, alignment 1      word   with alignment > 1   *)
(*   view   str_view_t, octet_view_t           buf    str_buf_t, octet_buf_t *)
(*   str    str_t      bin   bin_t      array  bin_typed_array_t           *)
(*   typed  bin_typed_t                                                    *)
(* A char is unsigned, as it is on the ARM targets of the library.         *)
(***************************************************************************)
EXTENDS Integers, SequencesExt

CONSTANTS ByteMod,                  \* the values of a byte, 256 in the code
          kMaxAllowedArgumentSize,  \* the room for all arguments of a command
          Signatures,  \* what is sent and what the receiver declares for it
          Foreign,     \* packets of devices that know nothing of a signature
          Orders       \* orders a call's arguments may be evaluated in

Kinds == {"byte", "word", "view", "buf", "str", "bin", "array", "typed"}
Types == [kind : Kinds, n : Nat, el : Nat \ {0}]
Bytes == 0..(ByteMod - 1)

VARIABLES
    sig,       \* the signature of the command
    args,      \* the values to send
    order,     \* the order this build evaluates the extractions in
    phase,     \* "send", "receive", "done", or "undefined" behaviour
    next,      \* the argument, or extraction, that comes next
    packet,    \* the payload
    pos,       \* pData: how much has been taken
    dataLeft,
    error,
    got,       \* the extracted arguments
    outcome,   \* of call_cmd
    readTo     \* history: the end of what was read of the packet

sender == <<sig, args, order>>
receiver == <<pos, dataLeft, error, got, outcome, readTo>>
vars == <<sender, phase, next, packet, receiver>>

None == <<>>    \* an argument that was not extracted
Raw(t) == t.kind \in {"byte", "word"}

Least(a, b) == IF a < b THEN a ELSE b
-----------------------------------------------------------------------------
(* The types, one after the other: the objects their constructors and       *)
(* assignments can make, the size serialize_to writes (a uint8_t), and the *)
(* lengths serialize_from lets pass.  The byte at place i of an object is  *)
(* ByteMod - i, but for its length.                                        *)

Holding(len, size) == [i \in 1..size |-> IF i = 1 THEN len ELSE ByteMod - i]

\* str_view_t, octet_view_t: they only look at what is in the packet.
ViewMoves(first) == (first + 1) % ByteMod

\* str_buf_t, octet_buf_t: a length byte and n of content.
BufAccepts(t, len) == len <= t.n

\* str_t: n bytes with the length.
StrObjects(t) == {Holding(len, t.n) : len \in 0..(t.n - 1)}
\* slip: the size is that of the content alone.
StrSizeOfContent(v) == v[1] % ByteMod
StrSize(v) == (v[1] + 1) % ByteMod
StrAccepts(t, len) == len < t.n

\* bin_t: n bytes with the length, but always sent whole.
BinObjects(t) == {Holding(len, t.n) : len \in 0..(t.n - 1)}
BinSize(t) == t.n % ByteMod
BinAccepts(t, len) == len < t.n

\* bin_typed_array_t: up to n elements of el bytes behind the length.
ArrayObjects(t) == {Holding(m * t.el, 1 + t.n * t.el) : m \in 0..t.n}
ArraySize(v) == (v[1] + 1) % ByteMod
\* slip: a part of an element is let pass.
ArrayAcceptsParts(t, len) == len <= t.n * t.el
ArrayAccepts(t, len) == len <= t.n * t.el /\ len % t.el = 0

\* bin_typed_t: one element behind its length.
TypedObjects(t) == {Holding(t.el, 1 + t.el)}
TypedSize(t) == (t.el + 1) % ByteMod
TypedAccepts(t, len) == len = t.el

Objects(t) == CASE Raw(t)            -> {[i \in 1..t.el |-> ByteMod - i]}
                [] t.kind = "str"    -> StrObjects(t)
                [] t.kind = "bin"    -> BinObjects(t)
                [] t.kind = "array"  -> ArrayObjects(t)
                [] t.kind = "typed"  -> TypedObjects(t)

serialize_size(t, v) == CASE Raw(t)           -> t.el
                          [] t.kind = "str"   -> StrSize(v)
                          [] t.kind = "bin"   -> BinSize(t)
                          [] t.kind = "array" -> ArraySize(v)
                          [] t.kind = "typed" -> TypedSize(t)

Accepts(t, len) == CASE t.kind = "view"  -> TRUE
                     [] t.kind = "buf"   -> BufAccepts(t, len)
                     [] t.kind = "str"   -> StrAccepts(t, len)
                     [] t.kind = "bin"   -> BinAccepts(t, len)
                     [] t.kind = "array" -> ArrayAccepts(t, len)
                     [] t.kind = "typed" -> TypedAccepts(t, len)

\* sizeof; of what can be sent it is the serialize_limit too.
SizeOf(t) == CASE Raw(t) -> t.el
               [] t.kind \in {"str", "bin"} -> t.n
               [] t.kind = "array" -> 1 + t.n * t.el
               [] t.kind = "typed" -> 1 + t.el

\* What a command is declared with: types that can be sent and whose size a
\* byte can tell, which the room for all of them leaves no doubt of.
Sendable(t) == t \in Types /\ t.kind \notin {"view", "buf"} /\ SizeOf(t) < ByteMod

ASSUME ArgumentsAssumption ==
    /\ ByteMod \in Nat \ {0}
    /\ kMaxAllowedArgumentSize \in 0..(ByteMod - 1)
    /\ \A s \in Signatures :
           /\ s \in [sent : Seq(Types), received : Seq(Types)]
           /\ Len(s.sent) = Len(s.received)
           /\ \A i \in 1..Len(s.sent) : Sendable(s.sent[i])
           /\ Orders[Len(s.sent)] \subseteq [1..Len(s.sent) -> 1..Len(s.sent)]
    /\ \A p \in Foreign : p \in Seq(Bytes) /\ Len(p) < ByteMod

\* The sums of the first none, one, two, ... of the sizes.
Sums(sizes) == LET r[i \in 0..Len(sizes)] == IF i = 0 THEN 0 ELSE r[i - 1] + sizes[i] IN r

\* slip: the bytes of the lengths are not counted.
ContentTotalSize(types) ==
    Sums([i \in DOMAIN types |-> SizeOf(types[i]) - (IF Raw(types[i]) THEN 0 ELSE 1)])[Len(types)]
\* What the static_assert of send_cmd compares with the room there is.
g_ParamsTotalSize(types) == Sums([i \in DOMAIN types |-> SizeOf(types[i])])[Len(types)]

\* Does serialize_from, or a raw extract, succeed when so many bytes are left
\* and this is the first of them?
Fits(t, left, first) ==
    IF Raw(t) THEN left >= t.el ELSE left >= 1 /\ first < left /\ Accepts(t, first)

\* The bytes of a value that begins with this byte.
Size(t, first) == IF Raw(t) THEN t.el ELSE first + 1

\* slip: the position moves over the content and not over its length.
UsedByContent(t, first) == IF Raw(t) THEN t.el ELSE first
\* How far the position moves.
Used(t, first) == IF t.kind = "view" THEN ViewMoves(first) ELSE Size(t, first)
-----------------------------------------------------------------------------
Init ==
    /\ sig \in {s \in Signatures : g_ParamsTotalSize(s.sent) <= kMaxAllowedArgumentSize}
    /\ order \in Orders[Len(sig.sent)]
    /\ next = 1
    /\ \/ /\ phase = "send"
          /\ packet = <<>>
          /\ args \in {a \in [1..Len(sig.sent) -> UNION {Objects(sig.sent[i]) : i \in 1..Len(sig.sent)}] :
                           \A i \in 1..Len(sig.sent) : a[i] \in Objects(sig.sent[i])}
       \/ /\ phase = "receive"
          /\ packet \in Foreign
          /\ args = None
    /\ pos = 0
    /\ dataLeft = Len(packet)
    /\ error = FALSE
    /\ got = [i \in 1..Len(sig.sent) |-> None]
    /\ outcome = "none"
    /\ readTo = 0

\* One argument is written behind the others.  send_cmd_raw dereferences what
\* serialize_to returned without a look at it.
SerializeArg ==
    /\ phase = "send" /\ next <= Len(sig.sent)
    /\ LET size == serialize_size(sig.sent[next], args[next])
       IN  IF Len(packet) + size <= kMaxAllowedArgumentSize
           THEN /\ packet' = packet \o SubSeq(args[next], 1, size)
                /\ UNCHANGED phase
           ELSE /\ phase' = "undefined"
                /\ UNCHANGED packet
    /\ next' = next + 1
    /\ UNCHANGED <<sender, receiver>>

\* The packet is sent, and call_cmd of another device begins with it.
FinishAndSend ==
    /\ phase = "send" /\ next > Len(sig.sent)
    /\ phase' = "receive"
    /\ next' = 1
    /\ dataLeft' = Len(packet)
    /\ UNCHANGED <<sender, packet, pos, error, got, outcome, readTo>>

\* The argument that is extracted next, its type, and the byte it begins with,
\* which may be any when nothing is left.
Nth   == order[next]
Type  == sig.received[Nth]
First == IF pos < Len(packet) THEN packet[pos + 1] ELSE 0

ExtractArg ==
    /\ phase = "receive" /\ next <= Len(sig.received)
    /\ Fits(Type, dataLeft, First)
    /\ LET size == Size(Type, First)
       IN  /\ got' = [got EXCEPT ![Nth] = SubSeq(packet, pos + 1, Least(pos + size, Len(packet)))]
           /\ readTo' = pos + size
    /\ pos' = pos + Used(Type, First)
    /\ dataLeft' = dataLeft - Used(Type, First)
    /\ next' = next + 1
    /\ UNCHANGED <<sender, phase, packet, error, outcome>>

\* slip: the error is noted, what is left stays as it is.
ExtractFailsButGoesOn ==
    /\ phase = "receive" /\ next <= Len(sig.received)
    /\ ~ Fits(Type, dataLeft, First)
    /\ error' = TRUE
    /\ readTo' = IF Raw(Type) \/ dataLeft = 0 THEN readTo ELSE pos + 1
    /\ pos' = IF Type.kind = "byte" THEN pos + Type.el ELSE pos
    /\ next' = next + 1
    /\ UNCHANGED <<sender, phase, packet, dataLeft, got, outcome>>
\* An argument that does not fit: nothing is left for those that follow.  A
\* value of alignment 1 is a reference into the packet, and moves the position
\* all the same; a serializable one has read its length, if there was a byte.
ExtractFails ==
    /\ phase = "receive" /\ next <= Len(sig.received)
    /\ ~ Fits(Type, dataLeft, First)
    /\ error' = TRUE
    /\ dataLeft' = 0
    /\ readTo' = IF Raw(Type) \/ dataLeft = 0 THEN readTo ELSE pos + 1
    /\ pos' = IF Type.kind = "byte" THEN pos + Type.el ELSE pos
    /\ next' = next + 1
    /\ UNCHANGED <<sender, phase, packet, got, outcome>>

\* slip: the error is not looked at.
CallAnyway ==
    /\ phase = "receive" /\ next > Len(sig.received)
    /\ phase' = "done"
    /\ outcome' = "called"
    /\ UNCHANGED <<sender, next, packet, pos, dataLeft, error, got, readTo>>
call_cmd ==
    /\ phase = "receive" /\ next > Len(sig.received)
    /\ phase' = "done"
    /\ outcome' = IF error THEN "illegal_request" ELSE "called"
    /\ UNCHANGED <<sender, next, packet, pos, dataLeft, error, got, readTo>>

Next == SerializeArg \/ FinishAndSend \/ ExtractArg \/ ExtractFails \/ call_cmd

Spec == Init /\ [][Next]_vars
-----------------------------------------------------------------------------
\* No byte beyond the packet is read, whatever a foreign device has sent and in
\* whatever order the arguments are evaluated (cmd_to_arg_t).
ReadsInside == readTo <= Len(packet)

\* An object says its length in its first byte, but for a bin_t, which is
\* always sent whole and may say less.
SaysItsLength(t, v) == t.kind = "bin" => v[1] = t.n - 1

\* The arguments fit in the room there is, so that the unchecked optional of
\* send_cmd_raw holds a value: the static_assert of send_cmd on the sizes of
\* the types is enough.
ArgumentsFit == phase # "undefined"

InOrder == \A i \in DOMAIN order : order[i] = i
FromPeer == args # None /\ phase = "done"

\* A receiver's type r can hold whatever is sent as a t.
CanHold(r, t) == IF Raw(t) THEN Raw(r) /\ r.el = t.el
                 ELSE ~Raw(r) /\ \A len \in Bytes : Accepts(t, len) => Accepts(r, len)

\* When the arguments are evaluated from left to right, a receiver that
\* declares for each argument a type that can hold it is called with the bytes
\* the sender gave, if every object says its length.
RoundTrip ==
    FromPeer /\ InOrder /\ (\A i \in DOMAIN args : /\ CanHold(sig.received[i], sig.sent[i])
                                                   /\ SaysItsLength(sig.sent[i], args[i]))
    => /\ outcome = "called"
       /\ \A i \in DOMAIN args :
              got[i] = SubSeq(args[i], 1, IF Raw(sig.sent[i]) THEN sig.sent[i].el
                                                              ELSE args[i][1] + 1)

\* The encodings of a type, said without the code: a value as it is, or a
\* length the type can hold and that many bytes.
Encodes(t, bytes) == IF Raw(t) THEN Len(bytes) = t.el
                     ELSE Len(bytes) >= 1 /\ Accepts(t, bytes[1]) /\ Len(bytes) = bytes[1] + 1

\* The packet begins with encodings of the types, one behind the other.
BeginsWith(types) ==
    \E cut \in [0..Len(types) -> 0..Len(packet)] :
        /\ cut[0] = 0
        /\ \A i \in 1..Len(types) :
               Encodes(types[i], SubSeq(packet, cut[i - 1] + 1, cut[i]))

\* The user's callback is called exactly when the packet holds what the command
\* declares, in the order of evaluation; otherwise the request is refused.
CalledIfWellFormed ==
    phase = "done" =>
        (outcome = "called" <=> BeginsWith([i \in 1..Len(sig.received) |-> sig.received[order[i]]]))
=============================================================================
