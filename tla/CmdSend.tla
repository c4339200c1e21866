------------------------------ MODULE CmdSend ------------------------------
(***************************************************************************)
(* Sending commands from one endpoint: send_cmd_impl, on_send_cmd_cb and   *)
(* on_send_cmd_timeout of ep_t in impl/zbm_ep.hpp, with the pool of        *)
(* impl/zbm_buf.hpp.                                                       *)
(*                                                                         *)
(* Everything runs on the ZBOSS scheduler thread, one callback at a time.  *)
(* A user callback is a frame of its own (running): until it returns the   *)
(* scheduler runs nothing else, and the callback itself may send again.    *)
(* ZBOSS is external: it accepts a packet or not, calls on_send_cmd_cb     *)
(* once for every packet it accepted, and fires an alarm at most once.     *)
(*                                                                         *)
(* A ticket numbers the calls of send_cmd; it stands for the callback of   *)
(* the call and marks the packet the call put in flight.                   *)
(*                                                                         *)
(* A definition marked "slip" is a mistake the code could have made, kept  *)
(* beside what it would break; nothing of the specification uses it.       *)
(***************************************************************************)
EXTENDS BufPool, FiniteSets, Sequences

CONSTANTS IdWrap,        \* cmd_id_t has IdWrap values (256 in the code)
          MaxSends,      \* bound: the number of calls of send_cmd
          AlarmsMayFail  \* may zb_schedule_app_alarm return an error?

ASSUME SendAssumption == /\ IdWrap \in Nat \ {0}
                         /\ MaxSends \in Nat
                         /\ AlarmsMayFail \in BOOLEAN

VARIABLES
    ready,           \* init() has run
    g_PreAllocBufs,  \* the buffers that can be allocated
    g_IssuedCmds,    \* the commands that wait for their callback
    g_cmd_num,       \* the id of the next command
    air,             \* the packets ZBOSS holds
    alarms,          \* the scheduled on_send_cmd_timeout: buffer and setter
    running,         \* the user callback that is being run
    asserted,        \* a ZB_ASSERT failed: the program has stopped
    attempts,        \* history: calls of send_cmd so far
    told,            \* history: what each call returned
    answers          \* history: the callbacks each call got

code == <<ready, g_PreAllocBufs, g_IssuedCmds, g_cmd_num, air, alarms, running, asserted>>
history == <<attempts, told, answers>>
vars == <<code, history>>

Tickets  == 1..MaxSends
NoStatus == 0                    \* the status argument of a timeout: nullptr
CmdIds   == 0..(IdWrap - 1)
Packets  == [buf : Bufs, ticket : Tickets]

IssuedCmd   == {c \in [buf : Bufs \cup {NoBuf}, cmd_id : CmdIds, ticket : Tickets \cup {0}] :
                    c.buf # NoBuf => c.ticket # 0}
NoIssuedCmd == [buf |-> NoBuf, cmd_id |-> 0, ticket |-> 0]

\* A frame of a user callback: whose it is and the buffer of its status.
Frames  == [ticket : Tickets, buf : Bufs \cup {NoBuf}]
NoFrame == [ticket |-> 0, buf |-> NoBuf]

Returned == [kind : {"unmade", "refused", "posted", "accepted"}, id : CmdIds]
Calls    == [id : CmdIds, of : Tickets \cup {NoStatus}]

Used        == {e \in Slots : g_IssuedCmds[e].buf # NoBuf}

\* slip: entries are handed out without looking at their buffer.
FreeEntriesUnchecked == Slots
FreeEntries == Slots \ Used

\* slip: any command that waits is taken for the one of the buffer.
EntriesOfAnyone(b) == Used
\* The entries of a buffer; both handlers take the first.
EntriesOf(b) == {e \in Slots : g_IssuedCmds[e].buf = b}

-----------------------------------------------------------------------------
Init ==
    /\ ready = FALSE
    /\ g_PreAllocBufs = NoBuffers
    /\ g_IssuedCmds = [e \in Slots |-> NoIssuedCmd]
    /\ g_cmd_num = 0
    /\ air = {}
    /\ alarms = {}
    /\ running = NoFrame
    /\ asserted = FALSE
    /\ attempts = 0
    /\ told = [t \in Tickets |-> [kind |-> "unmade", id |-> 0]]
    /\ answers = [t \in Tickets |-> <<>>]

\* ep_t::init() at the start of the device; a shortage of buffers is ignored.
EpInit ==
    /\ ~ready /\ ~asserted
    /\ ready' = TRUE
    /\ g_PreAllocBufs' \in {p \in Pools : Initialises(p)}
    /\ UNCHANGED <<g_IssuedCmds, g_cmd_num, air, alarms, running, asserted, history>>

-----------------------------------------------------------------------------
(* send_cmd_impl, by its outcome *)

Ticket == attempts + 1

Calling == ~asserted /\ attempts < MaxSends

Returns(kind) ==
    /\ attempts' = Ticket
    /\ told' = [told EXCEPT ![Ticket] = [kind |-> kind, id |-> g_cmd_num]]
    /\ UNCHANGED <<ready, running, answers>>

InFlight(b) == air' = air \cup {[buf |-> b, ticket |-> Ticket]}

\* slip: the id is wider than its type.
NextIdUnbounded == g_cmd_num' = g_cmd_num + 1
NextId == g_cmd_num' = (g_cmd_num + 1) % IdWrap

Fill(e, b) ==
    g_IssuedCmds' = [g_IssuedCmds EXCEPT
                        ![e] = [buf |-> b, cmd_id |-> g_cmd_num, ticket |-> Ticket]]

\* No buffer left: nullopt.
SendWithoutBuffer ==
    /\ Calling
    /\ Holding(g_PreAllocBufs) = {}
    /\ Returns("refused")
    /\ UNCHANGED <<g_PreAllocBufs, g_IssuedCmds, g_cmd_num, air, alarms, asserted>>

\* A buffer but no entry: ZB_ASSERT(pIssued).
SendWithoutEntry ==
    /\ Calling
    /\ FreeEntries = {}
    /\ \E b \in Bufs : Allocates(g_PreAllocBufs, b, g_PreAllocBufs')
    /\ asserted' = TRUE
    /\ UNCHANGED <<ready, g_IssuedCmds, g_cmd_num, air, alarms, running, history>>

\* slip: the buffer of a packet that was not sent is forgotten.
SendRejectedLeaks ==
    /\ Calling
    /\ FreeEntries # {}
    /\ \E b \in Bufs : Allocates(g_PreAllocBufs, b, g_PreAllocBufs')
    /\ Returns("refused")
    /\ UNCHANGED <<g_IssuedCmds, g_cmd_num, air, alarms, asserted>>

\* send_cmd_raw fails: the buffer goes back, nullopt.
SendRejected ==
    /\ Calling
    /\ FreeEntries # {}
    /\ \E b \in Bufs : GivesBack(g_PreAllocBufs, b, g_PreAllocBufs')
    /\ Returns("refused")
    /\ UNCHANGED <<g_IssuedCmds, g_cmd_num, air, alarms, asserted>>

\* cfg.cb is null: nothing is recorded.
SendUntracked ==
    /\ Calling
    /\ FreeEntries # {}
    /\ \E b \in Bufs : Allocates(g_PreAllocBufs, b, g_PreAllocBufs') /\ InFlight(b)
    /\ NextId
    /\ Returns("posted")
    /\ UNCHANGED <<g_IssuedCmds, alarms, asserted>>

SendTracked ==
    /\ Calling
    /\ \E b \in Bufs, e \in Slots :
          /\ Allocates(g_PreAllocBufs, b, g_PreAllocBufs')
          /\ InFlight(b)
          /\ IsFirst(e, FreeEntries)
          /\ Fill(e, b)
          /\ alarms' = alarms \cup {[buf |-> b, ticket |-> Ticket]}
    /\ NextId
    /\ Returns("accepted")
    /\ UNCHANGED asserted

\* slip: the entry of a command without a timeout stays in use.
SendWithoutAlarmKeepsEntry ==
    /\ Calling
    /\ AlarmsMayFail
    /\ \E b \in Bufs, e \in Slots :
          /\ GivesBack(g_PreAllocBufs, b, g_PreAllocBufs')
          /\ InFlight(b)
          /\ IsFirst(e, FreeEntries)
          /\ Fill(e, b)
    /\ Returns("refused")
    /\ UNCHANGED <<g_cmd_num, alarms, asserted>>

\* The alarm cannot be scheduled: the entry and the buffer are given back
\* and the caller gets nullopt, but the packet stays with ZBOSS.
SendWithoutAlarm ==
    /\ Calling
    /\ AlarmsMayFail
    /\ \E b \in Bufs, e \in Slots :
          /\ GivesBack(g_PreAllocBufs, b, g_PreAllocBufs')
          /\ InFlight(b)
          /\ IsFirst(e, FreeEntries)
          /\ Fill(e, NoBuf)
    /\ Returns("refused")
    /\ UNCHANGED <<g_cmd_num, alarms, asserted>>

-----------------------------------------------------------------------------
(* The scheduler's callbacks *)

Idle == ~asserted /\ running = NoFrame

\* slip: the entry is not reset.
FreeForgets(e) == UNCHANGED g_IssuedCmds
Free(e) == g_IssuedCmds' = [g_IssuedCmds EXCEPT ![e].buf = NoBuf]

\* cmd.cb(cmd.cmd_id, status): of is the packet whose status it is.
CallBack(e, of, b) ==
    LET cmd == g_IssuedCmds[e]
    IN  /\ running' = [ticket |-> cmd.ticket, buf |-> b]
        /\ answers' = [answers EXCEPT ![cmd.ticket] = Append(@, [id |-> cmd.cmd_id, of |-> of])]
        /\ UNCHANGED <<attempts, told>>

\* slip: the alarm outlives its command.
CancelForgets(b) == UNCHANGED alarms

\* zb_schedule_alarm_cancel(on_send_cmd_timeout, b): one alarm of b goes.
Cancel(b) == \/ \E a \in alarms : a.buf = b /\ alarms' = alarms \ {a}
             \/ (\A a \in alarms : a.buf # b) /\ UNCHANGED alarms

\* slip: the buffer is given back at the timeout (the commented line 264).
OnSendCmdTimeoutDeallocates(a) ==
    /\ Idle
    /\ a \in alarms
    /\ alarms' = alarms \ {a}
    /\ \E e \in Slots : /\ IsFirst(e, EntriesOf(a.buf))
                       /\ Deallocates(g_PreAllocBufs, a.buf, g_PreAllocBufs')
                       /\ Free(e)
                       /\ CallBack(e, NoStatus, NoBuf)
    /\ UNCHANGED <<ready, asserted, g_cmd_num, air>>

\* slip: the command is dropped at the timeout without its callback.
OnSendCmdTimeoutSilent(a) ==
    /\ Idle
    /\ a \in alarms
    /\ alarms' = alarms \ {a}
    /\ \E e \in Slots : IsFirst(e, EntriesOf(a.buf)) /\ Free(e)
    /\ UNCHANGED <<ready, g_PreAllocBufs, asserted, running, g_cmd_num, air, history>>

\* on_send_cmd_timeout(a.buf).  The buffer stays out: ZBOSS still holds it.
OnSendCmdTimeout(a) ==
    /\ Idle
    /\ a \in alarms
    /\ alarms' = alarms \ {a}
    /\ IF EntriesOf(a.buf) = {}
       THEN asserted' = TRUE /\ UNCHANGED <<g_IssuedCmds, running, history>>
       ELSE \E e \in Slots : /\ IsFirst(e, EntriesOf(a.buf))
                             /\ Free(e)
                             /\ CallBack(e, NoStatus, NoBuf)
                             /\ UNCHANGED asserted
    /\ UNCHANGED <<ready, g_PreAllocBufs, g_cmd_num, air>>

\* on_send_cmd_cb(p.buf) for a command that waits for its callback.  The
\* callback runs after the buffer and the entry were given back.
OnSendCmdCb(p) ==
    /\ Idle
    /\ p \in air
    /\ air' = air \ {p}
    /\ \E e \in Slots : IsFirst(e, EntriesOf(p.buf)) /\ Free(e) /\ CallBack(e, p.ticket, p.buf)
    /\ Cancel(p.buf)
    /\ Deallocates(g_PreAllocBufs, p.buf, g_PreAllocBufs')
    /\ UNCHANGED <<ready, g_cmd_num, asserted>>

\* slip: a buffer nobody waits for is not given back.
OnSendCmdCbUnmatchedLeaks(p) ==
    /\ Idle
    /\ p \in air
    /\ air' = air \ {p}
    /\ EntriesOf(p.buf) = {}
    /\ UNCHANGED <<ready, g_PreAllocBufs, g_IssuedCmds, g_cmd_num, alarms, running, asserted, history>>

\* ... when none waits: it asked for no callback, or was timed out.
OnSendCmdCbUnmatched(p) ==
    /\ Idle
    /\ p \in air
    /\ air' = air \ {p}
    /\ EntriesOf(p.buf) = {}
    /\ Deallocates(g_PreAllocBufs, p.buf, g_PreAllocBufs')
    /\ UNCHANGED <<ready, g_IssuedCmds, g_cmd_num, alarms, running, asserted, history>>

\* ... when the pool has no slot for the buffer: "we're dead".
OnSendCmdCbPoolFull(p) ==
    /\ Idle
    /\ p \in air
    /\ air' = air \ {p}
    /\ Vacant(g_PreAllocBufs) = {}
    /\ IF EntriesOf(p.buf) = {} THEN UNCHANGED alarms ELSE Cancel(p.buf)
    /\ asserted' = TRUE
    /\ UNCHANGED <<ready, g_PreAllocBufs, g_IssuedCmds, g_cmd_num, running, history>>

\* The user callback returns to the scheduler.
CallBackReturns ==
    /\ ~asserted /\ running # NoFrame
    /\ running' = NoFrame
    /\ UNCHANGED <<ready, g_PreAllocBufs, g_IssuedCmds, g_cmd_num, air, alarms, asserted, history>>

-----------------------------------------------------------------------------
Send == \/ SendWithoutBuffer \/ SendWithoutEntry \/ SendRejected
        \/ SendUntracked \/ SendTracked \/ SendWithoutAlarm

Next == \/ EpInit
        \/ Send
        \/ \E p \in Packets : \/ OnSendCmdTimeout(p)
                             \/ OnSendCmdCb(p)
                             \/ OnSendCmdCbUnmatched(p)
                             \/ OnSendCmdCbPoolFull(p)
        \/ CallBackReturns

Spec == Init /\ [][Next]_vars

\* The scheduler fires every alarm whose time has come, and user callbacks
\* return.
TimerFairness == /\ \A a \in Packets : WF_vars(OnSendCmdTimeout(a))
                 /\ WF_vars(CallBackReturns)

\* ZBOSS confirms every packet it accepted.
StackFairness == \A p \in Packets : WF_vars(OnSendCmdCb(p) \/ OnSendCmdCbUnmatched(p))

TimerSpec == Spec /\ TimerFairness

-----------------------------------------------------------------------------
(* Correctness *)

TypeOK ==
    /\ ready \in BOOLEAN /\ asserted \in BOOLEAN
    /\ g_PreAllocBufs \in Pools
    /\ g_IssuedCmds \in [Slots -> IssuedCmd]
    /\ g_cmd_num \in CmdIds
    /\ air \in SUBSET Packets
    /\ alarms \in SUBSET Packets
    /\ running \in Frames \cup {NoFrame}
    /\ attempts \in 0..MaxSends
    /\ told \in [Tickets -> Returned]
    /\ answers \in [Tickets -> Seq(Calls)]

\* No ZB_ASSERT of the send path fails: a timeout finds its entry, a
\* confirmed buffer finds a slot ("we're dead" is dead code) and a call that
\* got a buffer gets an entry (zbm_ep.hpp:465-466).
NoAssert == ~asserted

\* A buffer has one owner: it sits in one slot of the pool or carries one
\* packet, never both; otherwise two commands would be built in one buffer.
OneOwner ==
    /\ Distinct(g_PreAllocBufs)
    /\ \A p, q \in air : p.buf = q.buf => p = q
    /\ \A p \in air : \A s \in Slots : g_PreAllocBufs[s] # p.buf

\* A command that waits for its callback waits for the packet that is in
\* flight in its buffer, and has exactly one timeout scheduled; a buffer
\* that was timed out is never taken for the one of a later command.
Awaited(e) == [buf |-> g_IssuedCmds[e].buf, ticket |-> g_IssuedCmds[e].ticket]
WaitsForOwnPacket ==
    /\ \A e \in Used : Awaited(e) \in air
    /\ \A e, f \in Used : Awaited(e) = Awaited(f) => e = f
    /\ alarms = {Awaited(e) : e \in Used}

\* A callback is called with the id that its own send_cmd returned and with
\* the status of its own packet or with nullptr, and only when that send_cmd
\* was accepted: no answer is delivered to another command.
OwnAnswer ==
    \A t \in Tickets : \A i \in DOMAIN answers[t] :
        /\ told[t].kind = "accepted"
        /\ answers[t][i].id = told[t].id
        /\ answers[t][i].of \in {t, NoStatus}

\* A callback runs at most once for an accepted call of send_cmd and never
\* for a refused one, even when the alarm queue is full and packets of
\* refused commands are in flight.
AnsweredAtMostOnce ==
    \A t \in Tickets : Len(answers[t]) <= IF told[t].kind = "accepted" THEN 1 ELSE 0

\* What makes these inductive.  Before init() there are no buffers; there are
\* slots for all the buffers in flight; the history agrees with the entries:
\* a call not made yet has left no trace, an entry stands for an accepted
\* call without an answer, and every such call has its entry.
Unready == ~ready => air = {} /\ Holding(g_PreAllocBufs) = {}

Room == IsFiniteSet(air) /\ Cardinality(air) <= Cardinality(Vacant(g_PreAllocBufs))

Recorded ==
    /\ \A t \in Tickets : t > attempts => told[t].kind = "unmade" /\ answers[t] = <<>>
    /\ \A p \in air : p.ticket <= attempts
    /\ \A p, q \in air : p.ticket = q.ticket => p = q
    /\ \A e \in Used : LET c == g_IssuedCmds[e]
                       IN  /\ told[c.ticket] = [kind |-> "accepted", id |-> c.cmd_id]
                           /\ answers[c.ticket] = <<>>
    /\ \A t \in Tickets : told[t].kind = "accepted" /\ answers[t] = <<>>
                            => \E e \in Used : g_IssuedCmds[e].ticket = t

Inv == /\ NoAssert /\ OneOwner /\ WaitsForOwnPacket /\ Unready /\ Room /\ Recorded
       /\ OwnAnswer /\ AnsweredAtMostOnce

\* Once initialised, the endpoint neither loses a buffer nor makes one up:
\* what is in the pool or in flight stays the same set.
Owned == {g_PreAllocBufs[s] : s \in Holding(g_PreAllocBufs)} \cup {p.buf : p \in air}
BuffersConserved == [][ready => Owned' = Owned]_vars

\* What a call of send_cmd and its callbacks amount to for the abstract
\* service, which knows no "misanswered" request: one that was refused and
\* answered, answered twice, or answered for another.
Outcome(t, kind, calls) ==
    IF calls = <<>>
    THEN IF kind = "accepted" THEN "waiting" ELSE kind
    ELSE IF kind # "accepted" \/ Len(calls) # 1 \/ calls[1].of \notin {t, NoStatus}
         THEN "misanswered"
         ELSE IF calls[1].of = t THEN "answered" ELSE "timed out"

Abstract(t) == Outcome(t, told[t].kind, answers[t])

Service == INSTANCE CmdService WITH Requests <- Tickets,
                                    request <- [t \in Tickets |-> Abstract(t)]

\* The endpoint keeps the promise of CmdService: no request is answered
\* twice or after it was refused, and the queue depth bounds the waiting ones.
ImplementsService == Service!Safety

\* Every accepted request is answered, under TimerSpec: also when ZBOSS
\* never confirms a packet.
AcceptedIsAnswered == Service!AllAnswered

\* A buffer that left the pool comes back when ZBOSS confirms its packets:
\* timeouts do not drain the pool for good.
BuffersReturn ==
    StackFairness => \A b \in Bufs : (\E p \in air : p.buf = b)
                         ~> (asserted \/ \E s \in Slots : g_PreAllocBufs[s] = b)
=============================================================================
