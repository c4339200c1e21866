------------------------------ MODULE Dispatch ------------------------------
(***************************************************************************)
(* The two functions ZBOSS calls an application through: the signal        *)
(* handler (impl/zbm_signals.hpp), whose first call initialises the        *)
(* endpoints of the device (impl/zbm_device.hpp, impl/zbm_ep.hpp), and the *)
(* device callback (impl/zbm_handlers.hpp), which looks up the handlers of *)
(* a callback id in a table made at compile time.                          *)
(*                                                                         *)
(* ZBOSS is external: it calls one of them at a time, a signal first, and  *)
(* gives the buffer of a signal away with the call.                        *)
(*                                                                         *)
(* A definition marked "slip" is a mistake the code could have made, kept  *)
(* beside what it would break; nothing of the specification uses it.       *)
(***************************************************************************)
EXTENDS Integers, SequencesExt, FiniteSetsExt

CONSTANTS Programs,    \* what an application declares, see Program
          Params,      \* the parameters of device callbacks
          SignalIds,
          SET_ATTR,    \* ZB_ZCL_SET_ATTR_VALUE_CB_ID, the id with typed handlers
          All          \* no filter: a null reflection, kCLUSTER_ANY, kATTRIBUTE_ANY

\* A handler of device callbacks, and one of signals, which may have a result.
CbHandler(h)  == h.id \in Nat
SigHandler(h) == h.signal \in SignalIds /\ h.answers \in BOOLEAN
\* The template arguments: both lists, in the order they are declared; the
\* endpoints with an annotation; is there a default handler of callbacks?
Program(p) == /\ p.callbacks \in Seq(ToSet(p.callbacks))
              /\ \A i \in DOMAIN p.callbacks : CbHandler(p.callbacks[i])
              /\ \A i \in DOMAIN p.signals : SigHandler(p.signals[i])
              /\ p.eps \in Seq(Nat) /\ IsInjective(p.eps)
              /\ p.default \in BOOLEAN

ASSUME DispatchAssumption == /\ \A p \in Programs : Program(p)
                             /\ \A p \in Params : /\ DOMAIN p = {"id", "ep", "cluster", "attr"}
                                                  /\ p.id \in Nat

VARIABLES
    program,          \* fixed at compile time
    ctx_initialized,
    toInit,           \* the endpoints init() has still to initialise
    frame,            \* what runs: "idle", "callback", "signal", and its ends
    input,            \* the signal, or the parameter of the callback
    todo,             \* the handlers of the table's entry, from the next one on
    status,           \* pDevParam->status
    fills,            \* history: how often each endpoint was initialised
    ran,              \* history: the user code that ran in this call
    mine,             \* history: is the signal's buffer the library's?
    misused           \* history: it was freed or used when it was not

vars == <<program, ctx_initialized, toInit, frame, input, todo, status,
          fills, ran, mine, misused>>

Nothing == [id |-> All]
Statuses == {"ok", "failed"}

DEFAULT == 0      \* what ran, other than a handler: the default handler,
ERROR   == -1     \* or the error handler
-----------------------------------------------------------------------------
(* The table of handlers, made at compile time *)

Ids(list) == {list[i].id : i \in DOMAIN list}

\* filter_handlers_by_cb_id: places in the list, in the order of the list.
filter_handlers_by_cb_id(list, id) ==
    LET filtered[i \in 0..Len(list)] ==
            IF i = 0 THEN <<>>
            ELSE IF list[i].id = id THEN Append(filtered[i - 1], i) ELSE filtered[i - 1]
    IN  filtered[Len(list)]

\* organize_cb_into_lookup: its first entry is for the smallest id.
organize_cb_into_lookup(list) ==
    [i \in 0..(Max(Ids(list)) - Min(Ids(list))) |-> filter_handlers_by_cb_id(list, i + Min(Ids(list)))]

\* slip: a handler of an attribute runs for that attribute of any cluster.
PassesByAttribute(h, p) ==
    /\ h.ep \in {All, p.ep}
    /\ h.id = SET_ATTR => IF h.attr # All THEN h.attr = p.attr ELSE h.cluster \in {All, p.cluster}
\* generic_cb_handler: does this handler run?
Passes(h, p) ==
    /\ h.ep \in {All, p.ep}
    /\ h.id = SET_ATTR => h.attr \in {All, p.attr} /\ h.cluster \in {All, p.cluster}
-----------------------------------------------------------------------------
Init ==
    /\ program \in Programs
    /\ ctx_initialized = FALSE
    /\ toInit = <<>>
    /\ frame = "idle"
    /\ input = Nothing
    /\ todo = <<>>
    /\ status = "ok"
    /\ fills = [e \in ToSet(program.eps) |-> 0]
    /\ ran = <<>>
    /\ mine = FALSE
    /\ misused = FALSE

\* tpl_device_cb.  The entry is taken with the id, not with its distance from
\* the smallest: behind the table nothing is known.
DeviceCb(p) ==
    /\ frame = "idle" /\ ctx_initialized
    /\ input' = p
    /\ status' = "ok"
    /\ ran' = <<>>
    /\ LET list == program.callbacks
           table == organize_cb_into_lookup(list)
       IN  CASE list = <<>> \/ p.id \notin Min(Ids(list))..Max(Ids(list)) ->
                    frame' = "callback" /\ todo' = <<>>
             [] OTHER ->
                    IF p.id \in DOMAIN table THEN frame' = "callback" /\ todo' = table[p.id]
                                             ELSE frame' = "undefined" /\ todo' = <<>>
    /\ UNCHANGED <<program, ctx_initialized, toInit, fills, mine, misused>>

\* A callback without a buffer, and so without a parameter.
DeviceCbWithoutParam ==
    /\ frame = "idle" /\ ctx_initialized
    /\ input' = Nothing
    /\ ran' = <<ERROR>>
    /\ UNCHANGED <<program, ctx_initialized, toInit, frame, todo, status, fills, mine, misused>>

\* The next handler of the entry: it runs, and may set the status, or not.
CbHandlerRuns ==
    /\ frame = "callback" /\ todo # <<>>
    /\ Passes(program.callbacks[Head(todo)], input)
    /\ ran' = Append(ran, Head(todo))
    /\ status' \in {status} \cup Statuses
    /\ todo' = Tail(todo)
    /\ UNCHANGED <<program, ctx_initialized, toInit, frame, input, fills, mine, misused>>

CbHandlerIsSkipped ==
    /\ frame = "callback" /\ todo # <<>>
    /\ ~ Passes(program.callbacks[Head(todo)], input)
    /\ todo' = Tail(todo)
    /\ UNCHANGED <<program, ctx_initialized, toInit, frame, input, status, fills, ran, mine, misused>>

\* All have been looked at: the default handler runs whether one has run or not.
DeviceCbEnds ==
    /\ frame = "callback" /\ todo = <<>>
    /\ \/ program.default /\ ran' = Append(ran, DEFAULT) /\ status' \in {status} \cup Statuses
       \/ ~program.default /\ UNCHANGED <<ran, status>>
    /\ frame' = "idle"
    /\ UNCHANGED <<program, ctx_initialized, toInit, input, todo, fills, mine, misused>>
-----------------------------------------------------------------------------
\* slip: that the device is initialised is not remembered.
RemembersNot == UNCHANGED ctx_initialized
Remembers == ctx_initialized' = TRUE

\* tpl_signal_handler begins.
Signal(s) ==
    /\ frame = "idle"
    /\ frame' = "signal"
    /\ toInit' = IF ctx_initialized THEN <<>> ELSE program.eps
    /\ Remembers
    /\ input' = [id |-> s]
    /\ ran' = <<>>
    /\ mine' = TRUE
    /\ UNCHANGED <<program, todo, status, fills, misused>>

\* init() of the device, endpoint by endpoint: the pool of buffers and the
\* handlers of clusters that have an init().
InitEp ==
    /\ frame = "signal" /\ toInit # <<>>
    /\ fills' = [fills EXCEPT ![Head(toInit)] = IF @ = 2 THEN 2 ELSE @ + 1]
    /\ toInit' = Tail(toInit)
    /\ UNCHANGED <<program, ctx_initialized, frame, input, todo, status, ran, mine, misused>>

Matching == {i \in DOMAIN program.signals : program.signals[i].signal = input.id}

\* slip: with an answer at hand the buffer is freed, which b will do again.
FreesWithAnswer ==
    /\ frame' = "returning"
    /\ mine' = FALSE
Answered ==
    /\ frame' = "returning"
    /\ UNCHANGED mine

\* invoke_signal of the first handler there is.  One with a result may answer.
SignalHandlerRuns ==
    /\ frame = "signal" /\ toInit = <<>> /\ Matching # {}
    /\ LET first == Min(Matching)
       IN  /\ ran' = Append(ran, first)
           /\ \/ program.signals[first].answers /\ Answered
              \/ frame' = "default" /\ UNCHANGED mine
    /\ UNCHANGED <<program, ctx_initialized, toInit, input, todo, status, fills, misused>>

NoSignalHandler ==
    /\ frame = "signal" /\ toInit = <<>> /\ Matching = {}
    /\ frame' = "default"
    /\ UNCHANGED <<program, ctx_initialized, toInit, input, todo, status, fills, ran, mine, misused>>

\* zigbee_default_signal_handler, with the buffer.
DefaultSignalHandler ==
    /\ frame = "default"
    /\ ran' = Append(ran, DEFAULT)
    /\ misused' = (misused \/ ~mine)
    /\ frame' = "returning"
    /\ UNCHANGED <<program, ctx_initialized, toInit, input, todo, status, fills, mine>>

\* ~buf_ptr_t.
SignalReturns ==
    /\ frame = "returning"
    /\ misused' = (misused \/ ~mine)
    /\ mine' = FALSE
    /\ frame' = "idle"
    /\ UNCHANGED <<program, ctx_initialized, toInit, input, todo, status, fills, ran>>

Next == \/ \E p \in Params : DeviceCb(p)
        \/ DeviceCbWithoutParam \/ CbHandlerRuns \/ CbHandlerIsSkipped \/ DeviceCbEnds
        \/ \E s \in SignalIds : Signal(s)
        \/ InitEp \/ SignalHandlerRuns \/ NoSignalHandler \/ DefaultSignalHandler \/ SignalReturns

Spec == Init /\ [][Next]_vars
-----------------------------------------------------------------------------
\* What a declaration says it is for, said without the table and the filters.
Concerns(h, p) == /\ h.id = p.id
                  /\ h.ep # All => h.ep = p.ep
                  /\ p.id = SET_ATTR /\ h.cluster # All => h.cluster = p.cluster
                  /\ p.id = SET_ATTR /\ h.attr # All => h.attr = p.attr
Concerned(p) == {i \in DOMAIN program.callbacks : Concerns(program.callbacks[i], p)}

\* The table is indexed by the id itself, which is an entry's place in it when
\* the smallest id there is a handler for is 0.
StartsAtZero(p) == p.callbacks = <<>> \/ 0 \in Ids(p.callbacks)

\* A device callback runs exactly the handlers declared for it, each once and
\* in the order of their declaration, and then the default handler; if nobody
\* is concerned the answer is success (tpl_device_cb).
RightHandlersRan ==
    frame = "idle" /\ input \in Params =>
        LET handlers == 1..(IF program.default THEN Len(ran) - 1 ELSE Len(ran))
        IN  /\ {ran[i] : i \in handlers} = Concerned(input)
            /\ \A i, j \in handlers : i < j => ran[i] < ran[j]
            /\ program.default => ran # <<>> /\ ran[Len(ran)] = DEFAULT
            /\ ran = <<>> => status = "ok"

\* Whenever code of the application runs, each endpoint has been initialised
\* once: its pool has its buffers, and none that were there before was lost.
ReadyForUserCode ==
    ran # <<>> => \A e \in DOMAIN fills : fills[e] = 1

\* A signal's buffer is used only while it is the library's, and freed once, on
\* every way out of the handler (tpl_signal_handler, ~buf_ptr_t).
SignalBufferFreedOnce == ~misused /\ (frame = "idle" => ~mine)
=============================================================================
