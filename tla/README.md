# A TLA+ model of nrf_zbm_cpp

This directory models the run-time core of nrf_zbm_cpp, the C++26 static
reflection wrappers for ZBOSS on nRF devices: the state it keeps, every
operation that changes it, and how its callbacks interleave. TLC checks the
models on small instances and TLAPS proves all of the invariants, the action
properties and the refinements for every instance; liveness is left to TLC.
`PROJECT.json` lists the runs, the source lines behind every definition, the
hazards of the code and the theorems.

Source paths below are relative to `src/include/nrfzbmcpp/` unless they begin
with `src/`.

## The system

The library is headers and one source file. Most of it runs at compile time:
it reflects on the structs of an application and lays out ZBOSS's tables of
endpoints, clusters and attributes. What runs on the device is small, and all
of it runs on the scheduler thread of ZBOSS (`src/README.md:100`), one callback
at a time. So nothing is preempted. What is hard is the order of the
callbacks, what happens when one of them calls back into the library, what is
left behind by the steps that fail, and 8-bit indices and counters.

    application ── send_cmd, Setup/Cancel, start/stop, set<> ──┐
         ▲                                                     ▼
         │ user callbacks                               nrf_zbm_cpp
         │ (commands, hooks, alarms, status)      endpoints, alarms, clusters
         └──────────────────────────────────────────┐          │ zb_* calls
                                                    │          ▼
                      ZBOSS: buffers, packets, alarm queue, handler tables

| part | state | operations | correct when |
|---|---|---|---|
| command sending (`impl/zbm_ep.hpp`, `impl/zbm_buf.hpp`) | pool of buffers, table of issued commands, 8-bit id | `init`, `send_cmd`, `on_send_cmd_cb`, `on_send_cmd_timeout`, the user's status callback | a buffer has one owner and comes back; a callback runs once, for its own command |
| alarms and timers (`impl/zbm_alarm.hpp`) | free list of 8 handles in a union, a handle in each alarm, low-handle flag, counter of death | `Setup`, `Cancel`, the scheduled callback, the ticks to the restart | no handle lost or shared; an alarm fires once, with its last argument; the flag is true |
| poll control (`src/src/zcl/zbm_zcl_poll_ctrl_impl.cpp`) | a handler pointer; the rest is in ZBOSS: alarms, a buffer, fast polling | `start`, `stop`, the check-in chain, the client's response | check-ins recur, fast polling ends, buffers come back |
| cluster handlers (`impl/zbm_cluster.hpp`, `impl/zbm_device.hpp`) | slots per cluster id, filled at the start; ZBOSS's handler per id and role | `generic_cluster_init`, command, check-value and write-hook handlers | a call reaches the code of the cluster it is for |
| device callbacks (`impl/zbm_handlers.hpp`) | none; a table built at compile time | dispatch by callback id, filter by endpoint, cluster and attribute | every handler that matches runs, in order, no other |
| signals (`impl/zbm_signals.hpp`, `impl/zbm_device.hpp`) | initialised or not | dispatch of one signal, initialisation of the endpoints at the first | the endpoints are initialised once, before any code of the application; the buffer is freed once |
| serialization (`impl/zbm_serialize.hpp`, `impl/zbm_str.hpp`, `impl/zbm_out_cmd.hpp`, `cmd_to_arg_t`, `call_cmd`) | position and what is left | write arguments, extract them, call the command | nothing is read outside the packet; what is written comes back; a callback is called for well-formed packets only |
| ring buffer (`tools/zbm_ring_buffer.hpp`) | head, tail, cells | `push`, `pop`, `drop`, `peek`, `size`, iteration | a queue with the room it promises; each element destroyed once |
| fixed function (`tools/zbm_function.hpp`) | storage, table, invoker | construction, assignment, invocation | what is invoked is what was assigned last |
| formatter (`tools/zbm_formatter.hpp`) | position, buffer, returned length | `format_to`, formatters of numbers, bytes, text | the output is what the format means; nothing is written past the end |
| annotations (`impl/zbm_annotations.hpp`) | none, compile time | analysis of endpoints and clusters | counts and orders agree with what is laid out |
| declarations (`zcl/`, `misc_zc/`), type maps, small helpers | data | none | — |

How they interact: ZBOSS calls `generic_cluster_init` for every cluster when
the device is registered (`ZB_AF_REGISTER_DEVICE_CTX`). At the first signal
`tpl_signal_handler` calls `init` of every annotated endpoint, which fills its
pool and initialises the handlers of its clusters. From then on ZBOSS calls the
cluster handlers, the device callbacks, `on_send_cmd_cb` for every packet it
accepted, and the alarms that were scheduled. The handler of a command takes
its arguments from the packet; `send_cmd` writes them there. A command of an endpoint schedules its timeout with
ZBOSS's own alarm, not with `alarm_t`; the poll control handler does the same
and takes its buffers from ZBOSS, not from the pool of the endpoint. These
parts therefore share no state of the library, only ZBOSS.

## The modules

| module | models | kind |
|---|---|---|
| `BufPool` | `pre_alloc_zb_bufs_out` | operators on a pool, used by its owners |
| `CmdSend` | `send_cmd` of one endpoint and its callbacks | EXTENDS `BufPool` |
| `CmdService` | what `send_cmd` promises | abstract, implemented by `CmdSend` |
| `AlarmPool` | `alarm_t`, `timer_t`, the free list, the restart | |
| `AlarmService` | what the alarms promise | abstract, implemented by `AlarmPool` |
| `PollCtrl` | `poll_ctrl_impl::handler` | |
| `ClusterHandlers` | registration and routing for one cluster id | |
| `Arguments` | the arguments of a command from `send_cmd_raw` to `call_cmd` | |
| `Dispatch` | the signal handler and the device callback | |
| `RingBuffer` | `ring_buffer_t` | |
| `Fifo` | what a ring buffer promises | abstract, implemented by `RingBuffer` |
| `FixedFunction` | `fixed_function_t` | |
| `Numbers` | what the formatters print of an argument | operators |
| `Formatter` | `format_to` | EXTENDS `Numbers` |
| `MCTools` | EXTENDS `RingBuffer`, `FixedFunction` and `Formatter` for one run | |
| `MC*` | instances, symmetry sets and devices for TLC | |
| `*_proofs` | lemmas and theorems | EXTEND the modules they are about |

Definitions keep the names of the code where TLA+ allows it. ZBOSS is external
and modelled by what the library relies on: it gives a buffer or none, accepts
a packet or not, confirms an accepted packet at most once, schedules an alarm
or refuses, and fires it at most once and at any time. A variable commented
"history" is not in the code; it records what the properties speak about.

A definition commented "slip" is a mistake the code could plausibly have made,
a dropped guard or a forgotten reset. It is used by no specification. Put in
the place of the definition after it, it makes a run find one of the
properties violated, which shows that the property can tell the difference.

### CmdSend

An endpoint has `Depth` buffers and as many entries for commands that wait for
a callback. The ways out of `send_cmd_impl` are actions of their own: no
buffer, no entry (an assertion), the packet rejected, sent without a callback,
sent with one, sent but its timeout not scheduled. `on_send_cmd_timeout` frees
the entry and leaves the buffer with ZBOSS; `on_send_cmd_cb` gives the buffer
back, cancels the timeout and frees the entry if there still is one. Both then
call user code, which is a frame (`running`): until it returns the scheduler
runs nothing, but the user may call `send_cmd` again. A ticket numbers the
calls, because ids wrap and buffers are reused: it is what tells the packet of
one command from that of another in the same buffer.

The abstract `CmdService` knows only requests: refused, posted, waiting,
answered, timed out. `ImplementsService` maps the history of `CmdSend` to it; a
request that was answered twice, or refused and answered, or answered for
another has no counterpart there.

### AlarmPool

`g_TimerList` is the head and the entries of the list. Writing one member of
the union destroys the other: a taken entry has `nextFree = Garbage`. `queue`
is what ZBOSS will call. A callback is a frame in which alarms are set and
cancelled, its own included. `RebootIsCounted` and `LowWhenCrowded` are about
the counter of death, which restarts a device that stays low on handles.
The refinement to `AlarmService` takes an alarm for armed with an argument when
it runs and ZBOSS holds its callback.

### PollCtrl

A check-in is a chain: an alarm, a request for a buffer, a bind check, then a
packet and the alarm of the next check-in. The alarms and requests are counted,
buffers are told apart. Every order of ZBOSS's callbacks is possible, so the
lengths of the intervals are abstracted, which only adds behaviours.

### ClusterHandlers

ZBOSS keeps one handler for a cluster id and a role whatever the endpoint. The
first cluster of the device gets it; the others are put into slots, counted at
compile time, and the first one's handler finds them by endpoint. The model has
one cluster id, a device chosen initially from a set of devices that compile,
the initialisation in the code's order, and then one call by ZBOSS. No call
changes a table, so a second call could only find what the first did.

### Arguments

A behaviour begins with a signature: the types that are sent and those the
receiver declares for them, and an order of evaluation. Either a peer writes
its arguments one by one, or a packet comes from a device that knows nothing of
the signature. Then the receiver extracts its arguments, one step each, and
`call_cmd` decides. The order of evaluation is a choice of the instance, because
the extractions are arguments of one C++ call (`impl/zbm_cluster.hpp:372`), whose
order the language leaves open while each moves the position of the next.

Types differ in what limits them: a size of their own, a capacity, a whole
number of elements, or nothing but the packet. Sizes and lengths wrap at
`ByteMod` as `uint8_t` does. An extraction that fails leaves nothing for the
others but may still move the position (a value of alignment 1 is a reference
into the packet). `Encodes` and `BeginsWith` say what a well-formed packet is
without mentioning positions; `CalledIfWellFormed` compares.

### Dispatch

An application is a list of handlers of device callbacks and one of signals,
and the endpoints with an annotation. ZBOSS calls one function at a time, the
signal handler first. The steps are those at which user code runs or the buffer
changes hands: each `init`, each handler, the default handlers, the return.
`RightHandlersRan` compares with `Concerns`, which reads a handler's
declaration without the table built at compile time.

### RingBuffer, FixedFunction, Formatter

`RingBuffer` has the masked indices and the cells; a cell holds an element or
is `Dead`. It is mapped to `Fifo`, whose queue has room for at least `N`
elements, with what each call returned. `FixedFunction` has what is in the
storage and the type it is taken for, `holds` remembers what was assigned.
`Formatter` is the loop of `format_to`, one action for each way through it;
`Meaning` defines by the grammar of the formats what it should print, from each
place of the format on, and `ReadsBack` in `Numbers` reads a printed number as a
person would. A float is a significand and a decade; `normalizeFloat` is its nine
steps, each of which moves the point and cuts the value down to a float again.
That cast changes the value by an amount that depends on its lowest bits, which
the model does not have; so each argument comes with what each step's cast adds
(`casts`), any amount up to `Roundoff`, and a value may be carried across a power
of ten by it (`Decade`). The one thing known of a cast besides its size is that a
float is not made smaller than another float: `Firm` are the powers of ten that
matter here and that hold back whatever is at or above them. 1e-31 is none, so
`OneDigitOrTen` allows a 10 before the point (see "Findings"). What is computed
in `splitFloat`, in double and without a cast, is exact up to the one place that
is kept behind those printed. A number in a format is a `size_t` in the code and
has no bound here, and behind a view the model has a 0, as behind a string.

Nothing connects these three at run time, so `MCTools` lets a behaviour use one
of them and leaves the others alone.

## The runs

| run | expects | shows |
|---|---|---|
| `cmd_safety` | pass | while alarms can be scheduled: no assertion fails, a buffer has one owner and none is lost, an entry waits for its own packet, an answer is the command's own, and `CmdService` is implemented |
| `cmd_alarm_queue_full` | pass | also when they cannot: at most one answer, none after a refusal |
| `cmd_live` | pass | every accepted command is answered, even if ZBOSS confirms nothing; if it confirms everything, every buffer comes back |
| `cmd_double_return` | violation of `NoAssert` | see finding 1 |
| `alarm_safety` | pass | the list is sound, handles and queue are owned, the flag is true, the restart is counted; ZBOSS may refuse to schedule |
| `alarm_service` | pass | `AlarmService` is implemented, and a running alarm ends although timers go on for ever |
| `poll_check_in` | pass | chains neither end nor fork, fast polling ends, check-ins recur, buffers come back |
| `cluster_regular` | pass | on regular devices every call reaches the right code, slots are neither short nor wasted, writes are checked |
| `cluster_hook` | violation of `HookSeesWrites` | see finding 2 |
| `arguments` | pass | reads stay in the packet, arguments fit, they come back as they were, callbacks are called exactly for well-formed packets |
| `dispatch` | pass | exactly the handlers meant run, never before the endpoints are initialised; a signal's buffer is freed once |
| `tools` | pass | the ring buffer is a queue and destroys each element once; function objects run what was assigned; formats print what they mean, numbers read back, buffers are not overrun |

### Bounds

- `cmd_safety` has three buffers, three ids and five calls. Three buffers let
  one command be timed out, one wait and one be sent from a callback. Five
  calls of three ids make ids wrap while commands wait. `MaxSends` bounds the
  calls of `send_cmd`, and with it everything that follows from them. The
  liveness run has two buffers and four calls, which still reuses each buffer
  after a timeout.
- `alarm_safety` has four handles for five alarms, two of them timers, so that
  all handles are taken, freed in any order and wanted again; the threshold
  is 2 as in the code, the counter of death 3 instead of 6. `alarm_service`
  has three handles, four alarms and two arguments, which tell an alarm's last
  argument from an earlier one.
- `poll_check_in` has three chains, two stops and three buffers, all of which
  may be lost; up to two no-response alarms are pending at a time. This bound
  (`MaxNoResponses`) delays a send until one has gone off.
- `cluster_regular` has three endpoints in both roles: one cluster registers,
  two are in slots, and find() must tell the two apart. `cluster_hook` needs
  two endpoints only.
- `arguments` has every signature of up to three arguments of six types that
  can be sent, every type a receiver may declare for each, every value, and
  all foreign packets of up to four bytes 0, 2 and 3. A byte has 16 values and
  the room is 8, so that sums and lengths come near both. Three arguments have
  one that is neither first nor last; four bytes hold two lengths and contents
  of which the second does not fit.
- `dispatch` has every list of up to three handlers with any filters, of ids 0
  and 2, and calls with ids 0 to 3: below, in, in a gap of, and behind the table.
- `tools` has rings for 1, 2, 3, 4 and 7 elements (powers of two, one less, and
  in between) whose indices wrap many times, and three function objects with
  five callables, one of them move-only. Formats are all those of four characters
  out of seven that matter, and three whole pieces, with zero to two arguments
  and buffers of 1 to 30. Numbers are all of 8 bits, floats ten significands in
  decades from -45 to 38, all that type `float` has, on both sides of the steps of
  the normalization it can reach. Their casts are exact, off by as much as they
  can be, or off to alternating sides, so that values are carried across a power
  of ten in both directions, at each step and at the last: with no `Firm` power,
  or without the 10 that `OneDigitOrTen` allows, TLC finds a number that does not
  read back. TLC's integers have 32 bits, so a float prints three decimal places
  instead of nine, the exponent begins at the fourth decade, and a cast is off by
  20 of 10^4 at most, some thousand times more than in the code.
- Symmetry is used in `cmd_safety`, `cmd_alarm_queue_full` and `alarm_safety`,
  where buffers or alarms are interchangeable. `cmd_safety` and `alarm_safety`
  also check action properties with it; these treat all buffers and all alarms
  alike. Runs with liveness use none.

### Fairness, and where the system may stop

- `TimerFairness` (`CmdSend`): the scheduler fires an alarm whose time has
  come, and user callbacks return. The code's own handlers never block, and a
  callback that did not return would stop the device.
- `StackFairness`: ZBOSS confirms every packet it accepted. It is the contract
  of `zb_zcl_finish_and_send_packet`, but radios fail. Therefore it is no part
  of the specification, only the premise of `BuffersReturn`; that every command
  is answered does not need it.
- `AlarmPool`: strong fairness for each scheduled callback. Weak fairness is
  not enough in the model, because a callback of another timer disables all
  the others while it runs, and timers may go on for ever. The scheduler is a
  queue ordered by time, so an alarm that is due again and again is run.
- `PollCtrl`: ZBOSS runs its alarms, gives a buffer when it has one, answers
  the bind checks and confirms the packets it took.

`AlarmPool`, `PollCtrl` and `CmdSend` are the components that wait for
something. The others compute and return, so no fairness is stated for them.

Deadlock is not checked in the runs of `CmdSend`, which end when the bounded
number of calls is made and nothing is in flight, and in those of
`ClusterHandlers`, `Arguments` and `MCTools`, whose behaviours end with their one
call, packet or format. The others never stop.

## What is proved

| theorem | for every | assuming |
|---|---|---|
| `CmdSend_proofs!TypeCorrect`, `AnsweredOnce` | depth, number of ids and calls; ZBOSS may refuse alarms | — |
| `AssertsHold`, `BuffersOwned`, `EntriesWait`, `AnswersMatch`, `BuffersAreConserved`, `Refinement` | the same | alarms can be scheduled (`~AlarmsMayFail`) |
| `AlarmPool_proofs!TypeCorrect`, `FreeListIsSound`, `HandlesAreOwned`, `QueueIsOwned`, `FlagIsTrue`, `RebootsAreCounted`, `AlarmsAreServed` | number of handles, alarms and arguments, threshold, counter; ZBOSS may refuse | — |
| `PollCtrl_proofs!TypeCorrect`, `ChainsNeitherEndNorFork`, `FastPollHasAnEnd` | number of buffers, starts, stops and alarms | no buffer has the endpoint's number (`EpBuf \notin Bufs`) |
| `ClusterHandlers_proofs!TypeCorrect` | device, endpoints, clusters and roles | — |
| `ServedCorrect`, `SlotsCorrect`, `WritesChecked` | the same | the clusters of one role are all of one kind and share no slots with the other role's (`Regular(device)`) |
| `Arguments_proofs!PacketOnly`, `CalledExactly`, `ArgumentsAlwaysFit`, `ArgumentsArrive` | signature, packet, order of evaluation, width of a byte | each type sent is shorter than a byte can tell, and so is each packet (`ArgumentsAssumption`) |
| `Dispatch_proofs!ApplicationIsReady`, `SignalBufferIsFreed` | application and parameter | — |
| `CallbacksReachTheirHandlers` | the same | the table of callbacks begins at id 0 or is empty (`StartsAtZero(program)`) |
| `Tools_proofs!CellsAreLive`, `RefinesFifo` | size, width of the indices, elements | the size is not cut off by the index type (`RingAssumption`) |
| `FunctionsRunWhatTheyHold` | function objects and callables, assigned and moved in any order | — |
| `Formatter_proofs!FormatterStaysInBounds` | format, arguments, buffer, number of decimal places | a view does not end with a closing brace (`EndsInText(call)`) |
| `FormatPrintsItsMeaning` | the same | text follows each placeholder of a view (`TextFollows(call)`) |
| `FormatterReadsBack` | width and value of an integral, decade and significand of a float, what its casts add, number of decimal places, thresholds of the exponent | — |

The other assumptions on the constants (`PoolAssumption`, `SendAssumption`,
`AlarmAssumption`, `PollAssumption`, `ClusterAssumption`, `DispatchAssumption`,
`FormatAssumption`) only give them their types and shapes; that of `Dispatch`
also says that an endpoint is declared once, and that of `Formatter` that no
character of a format is the 0 at its end, that an integral is as wide as whole
bytes and its value has that width, that one wider than 32 bits has at most 15
digits (also if it is printed in hexadecimal), that a float has one digit before
the point and a decade of type `float`, that a cast changes its significand by a
hundredth of 1 at most (less than a millionth in the code), and that the exponent
begins at 10 at the earliest and at 10^14 at the latest (10^7 in the code). The
digits are limited because the 16 characters on the stack take no sign and
sixteen of them, and no seventeen. The conditions in the last column are needed. `~AlarmsMayFail`: `cmd_double_return` shows that the theorems fail
without it. `EpBuf \notin Bufs`: `stop()` frees the endpoint's number.
`Regular`, `StartsAtZero` and the two on views leave out what "Findings" says of
mixed clusters, of the table of callbacks and of the overload for views; the
overload that takes a string and is used by `FMT_PRINT` needs none.

**CmdSend.** That no assertion fails is not inductive by itself. The pool has
room for a buffer that comes back only because there are at least as many
vacant slots as packets in flight (`Room`), which needs buffers to have one
owner (`OneOwner`); a timeout finds its entry only because the alarms are
exactly those of the entries (`WaitsForOwnPacket`); and an answer is right only
if what an entry remembers is what the call returned (`Recorded`, which also
says that a call not made yet has left no trace). `Inv` is their conjunction;
`InitInv` and `NextInv`, with one step for each action, prove it. The refinement
maps every action to the one step of `CmdService` that its outcome stands for,
and the bound on waiting requests to the slots that their entries occupy.
The lemmas about `BufPool` say what the pool's operators do to the sets of
buffers and vacant slots. `AnsweredOnce` needs much less and therefore holds when alarms
fail: entries belong to different calls that were accepted and have no answer
yet (`Pending`). `BuffersAreConserved` follows the buffers through each action
from the pool to a packet and back.

**AlarmPool.** The flag is derived from the number of a handle, so its truth
depends on the shape of the whole list: the handles below some `k` have been
taken before, in any order by now, and those above are still the tail of the
list in their first order (`Untouched`). Then the handle taken next is below
`k` or is `k` itself, and `k` is the largest number of alarms that ever ran at
once (`Peak`). Freeing pushes in front of that tail, taking pops a handle or
extends `k`. Ownership (`Owned`, `QueueOwned`) says that a handle is freed only
when it is taken, which keeps the list free of cycles. For `AlarmsAreServed` an
alarm is armed when ZBOSS holds its call (`ArmedOf`); while ZBOSS does not
refuse, each running alarm is (`AllQueued`), so that an empty free list means
that as many others are armed as there are handles (`EmptyIsFull`).

**PollCtrl.** The invariant adds only that there are no more chains than calls
of `start()`. Each action moves a chain from one of its three places to the
next; `BindingCount` is the cardinality argument for the place that is a set.

**ClusterHandlers.** What is left to be initialised is the set `todo`; the order
is that of `Before`, which a step takes the first of. Of the clusters that are
through and have a handler at all (`Served`), ZBOSS knows one
(`FirstIsRegistered`), and the slots hold exactly the others, each once, in the
array of its key (`SlotsHoldTheOthers`, `TheOthersHaveSlots`, `OneSlotEach`). So
a call finds the code of its cluster, and as many slots are taken as clusters
are through, less one (`SlotsTaken`): a matter of cardinalities, from which both
halves of `SlotsSuffice` follow. On a regular device the clusters of one role
share a key, and the keys of the roles that have a slot do not meet.

**Arguments.** Without an error the position and what is left make up the
packet; after one nothing is left, and no further byte is touched
(`Position`). So reads stay inside, whatever the position is by then. For
`CalledExactly`, the arguments extracted so far are one way to cut the packet,
and every way to cut it that serves all arguments goes through the position:
lengths leave no choice (`Split`). After an error there is no such way. That
everything fits follows from sums: the bytes written are at most the sizes of
the types written (`Room`), and sums of natural numbers only grow. For
`ArgumentsArrive` the packet is described by the sums of the bytes of each
argument (`Delivery`, `Written`); read from left to right, the position is the
next of these sums (`Received`), and a type that can hold the value takes just
its bytes.

**Dispatch.** What is still to be initialised are endpoints of the device, each
once, and user code runs only when nothing is (`InitOnce`). The buffer is the
library's exactly in the frames of the signal handler (`BufferInv`). While a
callback runs, the handlers that ran and those of `todo` that are concerned are
together all that are concerned, in the order of their declaration
(`Remaining`). That an entry of the table lists the handlers of its id, in that
order, is `TableEntry`, about the filter that builds the table.

**RingBuffer.** An index is brought back by at most one turn (`Remainder`,
`Indices`). The live cells are those between the indices, and a push or a pop
moves one end by one cell. The refinement compares the sequences cell by cell.

**FixedFunction.** What an object holds is in its storage, and its table is
that of what it holds (`HoldsInv`); an object that was moved from holds nothing,
whatever is left in it.

**Formatter.** In bounds (`Inv`): the loop is within the format, what is not put
yet begins at or before it, and before a backslash if one was just read; the
buffer never has more than its room, because what is printed of an argument is
a sequence, whatever its length (`TextIsText`). For the meaning the invariant
splits the format in three: the text that was put, of which the buffer holds as
much as there is room for (`IsPut`); the characters read since; and what the
grammar says of the rest, from the place where the loop stands and with the
arguments taken so far. Put together they are the meaning of the whole
(`Reads`). A backslash belongs to the rest until it is clear that no brace comes
behind it, so the rest may begin one place before the loop (`Settled`). Clipping
what is already clipped loses nothing (`ClipAdded`). A placeholder is parsed in
two ways: the loop reads digits up to the first other character, then a colon,
then up to a brace; the grammar takes the brace first and looks for digits
before it. They agree because a brace is no digit and no colon
(`PlaceholderFound`), also where the format is cut off.

That numbers read back needs no invariant but that the call does not change; it
is a statement about the formatters. The digits of a number are its remainders,
so reading them one by one gives its quotients, the last of which is the number
(`PaddedReadsBack`); a decimal has as many digits as are needed
(`LengthIsLeast`), a hexadecimal number two for each byte (`PowerOfSixteen`).
The steps of `normalizeFloat` are an induction of their own. After the step of
`k` decades a large value is at least 1 and has fewer than `k` decades left
(`UpTo`), a small one is at least 10^(1-k) and below 10 (`DownTo`); either may be
one decade up if casts left it just around that power. A step keeps this
(`LessStep`, `MoreStep`) because its cast takes the value across one power of ten
at most, and not below the firm one it is about to be compared with
(`CastFacts`); and what all casts have added grows by `Roundoff` with each
(`Within`). Three of the nine steps are for decades no float has, so after six the
value has one digit before the point or is ten, and is off by six casts at most
(`StepsTaken`, `ExponentTaken`). `IsSplit` is what `splitFloat` has to return:
parts within half a unit, and the casts, of the value, with one digit or ten
before the point if there is an exponent. Without an exponent there is no cast,
the point moves by the decade and what is behind the last place is rounded
(`UntakenIsSplit`); with one, rounding makes ten of the digit only when the rest
becomes zero, and then the exponent grows, while a ten that was there before
stays (`TakenUnits`, `RoundedCarries`, `TakenIsSplit`). In the text, no digit is a point, a sign or an e, so each part
is found where it was put (`CutsFloat`), and zeros that are dropped at the end
are a power of ten that reading puts back (`TrailingZeros`, `JoinedDigitsRead`).

Recursive functions (sums, filters, powers, the digits of a number, the meanings
of a format) are reasoned about by the least place at which a statement about
them would fail (`LeastMember`, `Inductive`), because the induction theorems of
the library cannot be used here; that such a function exists is proved first.
Powers are such a function (`Power`) because the provers know nothing of `^` when
the exponent is no numeral.

Left to TLC: all liveness (`AcceptedIsAnswered`, `BuffersReturn`, `AlarmsEnd`,
`CheckInsRecur`, `BuffersComeBack`), which is out of the prover's reach.

## Findings

1. `impl/zbm_ep.hpp:485`: when the timeout of a command cannot be scheduled,
   its buffer is deallocated although ZBOSS holds the packet. The confirmation
   deallocates it again: two commands may be built in one buffer, and in the
   end a deallocate finds the pool full and asserts ("we're dead").
2. `impl/zbm_cluster.hpp:526`: a `hook_*` function is called when the value
   could not be read, instead of when it could.

Met while modelling, without a run of their own. Sending:

- `impl/zbm_ep.hpp:281` says that the status is still valid in the callback. It
  lies in a buffer that is back in the pool; a callback that sends again gets
  that very buffer.
- The callback of a timeout gets `nullptr` (`impl/zbm_ep.hpp:266`), and the
  documented callback (`src/README.md:319-321`) dereferences it.
- `cmd_queue_depth = 0` makes a pool without slots, in which every send is
  refused; `src/README.md:720` says "0 = auto-infer from cluster command pool
  sizes".

Arguments:

- The receiver evaluates its extractions in the order the compiler chooses
  (`impl/zbm_cluster.hpp:372`). From right to left a command of several
  arguments gets them in the wrong places. `RoundTrip` is stated for left to
  right only; nothing is read outside the packet in any order.
- `send_cmd_raw` does not look at what `serialize_to` returns
  (`impl/zbm_out_cmd.hpp:81`). `ArgumentsFit` shows that the `static_assert` on
  the sizes of the types is enough.
- `bin_t` is always sent whole, whatever length it stores, and its constructor
  from an array drops the last element. Views and buffers have no
  `serialize_limit` and can only be received. A length of 255 makes the size of
  a view 0.

Dispatch:

- The table of device callbacks starts at the smallest id but is indexed by the
  id (`impl/zbm_handlers.hpp:341`). The run has a handler of id 0, for which
  both agree.

Tools:

- A ring buffer for 128 to 255 elements has an 8-bit size of 0.
- `fixed_function_t` destroys neither what it overwrites nor what it moved from.
  Assigning from an empty one, or copying a move-only one, calls through null; a
  plain function pointer that was moved away still converts to `true`.
- `format_to` leaves the buffer without a 0 when it fails, which `FMT_PRINT`
  prints all the same (`tools/zbm_misc_helpers.hpp:38`). The text of an error
  counts "E:" as four. The returned length is that of the whole text, also when
  it was clipped, and `format_to_sv` and `format_to_span` use it for the view. The
  overload for views skips the character after a placeholder, or the end, and is
  called by nobody. A decimal of 16 digits and a sign, or of 17, overruns its
  buffer; the least value of a signed type prints characters that are no digits.
- Each step of `normalizeFloat` ends in a cast to `float`
  (`tools/zbm_formatter.hpp:75`), so the nine places printed behind an exponent
  are more than are right: `12345678.0f`, which a float holds exactly, comes out
  near 1.23456776e7, and `1e-31f`, the float just below that power, is multiplied
  up to exactly 10 and printed as 10.0e-32. It is the only float that ends at 10.
  A `double` keeps the digits of a float only, and of 1e200, say, the first step
  leaves 1e72, which is too large for one.

Clusters, battery and poll control:

- If the first cluster of an id has no validator, ZBOSS has no check for the id
  and validators of other endpoints are never asked (`impl/zbm_cluster.hpp:589`),
  though `src/README.md:638` says they are.
- The percentage of a battery leaves its 8 bits for a voltage outside the
  configured range (`zcl/zbm_zcl_power_config_tools.hpp:61`).
- Mixed clusters of one id: a cluster that was not counted reaches the
  assertion at `impl/zbm_cluster.hpp:405`, and a slot may hold a null handler.
  Slots are keyed by needs and depth, not by role, so a server and a client
  cluster may share them and find each other's handler. `Regular` in
  `ClusterHandlers` leaves these devices out of the passing run.
- A command id that is not declared is answered with success
  (`impl/zbm_cluster.hpp:411`).
- The check of unique clusters (`impl/zbm_annotations.hpp:71`) misses those
  without commands and validators. A cluster that only has a hook and no
  `pre_init` is not initialised, so its hook is never registered.
- Poll control: the response of the client does not cancel the no-response
  alarm, which ends the fast polling the client asked for after 7.68 s. An
  interval of zero (`NO_CHECK_IN`) is scheduled as zero. If the check-in
  cannot be sent its buffer is lost, unlike in the endpoint's send path.
  `stop()` frees the endpoint's number as if it were a buffer, and does not end
  a chain that waits for a buffer or a bind check; `ChainsGoOn` counts such a
  chain as going on. The framework never calls `handler::init(uint8_t)`
  (`impl/zbm_ep.hpp:451`), the application has to. A written interval takes
  effect at the next check-in. `fast_poll_timeout`, in quarter seconds, is
  handed to a function that is otherwise given milliseconds. In the older
  cluster `long_poll_interval * 1000 / 4` can overflow 32 bits.

## What is not modelled

- Several threads. The lock of `impl/zbm_alarm.hpp` protects the list only, and
  the rest is for the scheduler thread.
- An alarm object destroyed inside its own callback;
  `pre_alloc_zb_bufs_out::free` and `sync_var_t`, which nobody calls.
- Contents of packets and attributes, addresses, lengths of intervals.
- The poll control of ZBOSS that `configure_poll_control` sets up, and
  `on_set_long_poll` and `on_set_short_poll`, which pass a value on.
- The header of a packet and the validation of attributes' values.
- In the formatter: NaN and infinity, doubles, the bits of a float (what a cast
  adds is any amount up to a bound), a number in a format that wraps around in a
  `size_t`, a view with no 0 behind it that ends inside a placeholder, integrals
  of more than 15 digits and a user's own formatters.
- A function object assigned to itself: `operator=` constructs its functor from
  itself in the same place (`tools/zbm_function.hpp:155`), which is taken to do
  no harm.
- What a `pre_init` does (`impl/zbm_cluster.hpp:563`), and ZBOSS asking a command
  handler for its list of commands (`impl/zbm_cluster.hpp:382`); neither changes
  state that is modelled.
- Annotations and analysis: compile-time reflection that keeps no state on the
  device. What the running program depends on, the number of slots, is in
  `ClusterHandlers`.
- Battery measurement: a timer, a regulator and an ADC of Zephyr around one
  formula. Occupancy: a table from configurations to a type.
- Declarations, type maps and compile-time helpers: they are data, or keep no
  state, and the compiler checks them.

## What could follow

1. `PollCtrl` with ZBOSS's alarm queue full, and a second poll control.
2. `Dispatch` with `ClusterHandlers` and the start of `CmdSend` in one module.
