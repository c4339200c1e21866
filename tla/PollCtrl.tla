------------------------------ MODULE PollCtrl ------------------------------
(***************************************************************************)
(* The check-ins of the poll control cluster: poll_ctrl_impl::handler of   *)
(* zcl/zbm_zcl_poll_ctrl_impl.cpp, after init().                           *)
(*                                                                         *)
(* A check-in is a chain of callbacks of ZBOSS: an alarm, a buffer, the    *)
(* answer whether somebody is bound, the confirmation of the packet; the   *)
(* second but last of them sets the alarm of the next check-in.  ZBOSS is  *)
(* external: what it will call is counted, and every order is possible,    *)
(* so the lengths of the intervals are abstracted.  zb_schedule_app_alarm  *)
(* is taken to succeed, and a cancellation to remove one alarm.  Writing   *)
(* the check-in interval changes no state of the handler's: its hook stops *)
(* the poll control of ZBOSS, which is another.                            *)
(*                                                                         *)
(* A definition marked "slip" is a mistake the code could have made, kept  *)
(* beside what it would break; nothing of the specification uses it.       *)
(***************************************************************************)
EXTENDS Naturals, FiniteSets

CONSTANTS Bufs,             \* the output buffers ZBOSS can give
          EpBuf,            \* the buffer whose number is the endpoint's, or none
          MaxStarts,        \* bound: calls of start()
          MaxStops,         \* bound: calls of stop()
          MaxNoResponses    \* bound: pending no-response alarms

ASSUME PollAssumption == /\ MaxStarts \in Nat /\ MaxStops \in Nat
                         /\ MaxNoResponses \in Nat \ {0}
                         /\ IsFiniteSet(Bufs)

VARIABLES
    bufs,           \* where each buffer is
    requests,       \* zb_buf_get_out_delayed calls to be answered
    checkIns,       \* alarms that will call send_check_in(0)
    noResponses,    \* alarms that will call on_no_response(ep)
    fastPoll,       \* is the device polling fast, and for whom
    starts, stops,  \* history: calls of start() and stop()
    chains,         \* history: chains started and not cancelled by a stop
    failed          \* history: buffers whose packet could not be sent

vars == <<bufs, requests, checkIns, noResponses, fastPoll, starts, stops, chains,
          failed>>

Places    == {"free", "binding", "sending", "lost"}
Binding   == {b \in Bufs : bufs[b] = "binding"}
\* slip: what is cancelled is not looked at.
OneLessUnchecked(n) == n - 1
\* A cancellation: one alarm less, if there is one.
OneLess(n) == IF n > 0 THEN n - 1 ELSE 0

Init ==
    /\ bufs = [b \in Bufs |-> "free"]
    /\ requests = 0 /\ checkIns = 0 /\ noResponses = 0
    /\ fastPoll = "off"
    /\ starts = 0 /\ stops = 0 /\ chains = 0
    /\ failed = {}

-----------------------------------------------------------------------------
(* The application *)

\* start(): send_check_in(0), which asks ZBOSS for a buffer.
Start ==
    /\ starts < MaxStarts
    /\ starts' = starts + 1
    /\ chains' = chains + 1
    /\ requests' = requests + 1
    /\ UNCHANGED <<bufs, checkIns, noResponses, fastPoll, stops, failed>>

\* slip: only the no-response alarm is cancelled.
StopKeepsCheckIn ==
    /\ stops < MaxStops
    /\ stops' = stops + 1
    /\ noResponses' = OneLess(noResponses)
    /\ chains' = IF checkIns > 0 THEN chains - 1 ELSE chains
    /\ UNCHANGED <<bufs, requests, checkIns, fastPoll, starts, failed>>

\* stop(): one alarm of each kind is cancelled.  What the no-response alarm
\* was called with is its endpoint, which stop() frees as a buffer.
Stop ==
    /\ stops < MaxStops
    /\ stops' = stops + 1
    /\ noResponses' = OneLess(noResponses)
    /\ bufs' = [b \in Bufs |-> IF noResponses > 0 /\ b = EpBuf THEN "free" ELSE bufs[b]]
    /\ checkIns' = OneLess(checkIns)
    /\ chains' = IF checkIns > 0 THEN chains - 1 ELSE chains
    /\ UNCHANGED <<requests, fastPoll, starts, failed>>

-----------------------------------------------------------------------------
(* The chain *)

\* The alarm: send_check_in(0).
CheckInAlarm ==
    /\ checkIns > 0
    /\ checkIns' = checkIns - 1
    /\ requests' = requests + 1
    /\ UNCHANGED <<bufs, noResponses, fastPoll, starts, stops, chains, failed>>

\* ZBOSS has a buffer: send_check_in(b) asks whether somebody is bound.
GotBuffer(b) ==
    /\ requests > 0
    /\ bufs[b] = "free"
    /\ requests' = requests - 1
    /\ bufs' = [bufs EXCEPT ![b] = "binding"]
    /\ UNCHANGED <<checkIns, noResponses, fastPoll, starts, stops, chains, failed>>

\* send_check_in_validated(b, true): the check-in is sent, and the device
\* polls fast until the no-response alarm.  Nobody looks whether it could be
\* sent; if not, there is no confirmation and nobody frees the buffer.
Bound(b, place) ==
    /\ bufs[b] = "binding"
    /\ noResponses < MaxNoResponses
    /\ bufs' = [bufs EXCEPT ![b] = place]
    /\ noResponses' = noResponses + 1
    /\ fastPoll' = "checkin"
    /\ checkIns' = checkIns + 1
    /\ failed' = IF place = "lost" THEN failed \cup {b} ELSE failed
    /\ UNCHANGED <<requests, starts, stops, chains>>
SendOutcomes == {"sending", "lost"}

\* slip: the buffer is forgotten.
UnboundLeaks(b) ==
    /\ bufs[b] = "binding"
    /\ bufs' = [bufs EXCEPT ![b] = "lost"]
    /\ checkIns' = checkIns + 1
    /\ UNCHANGED <<requests, noResponses, fastPoll, starts, stops, chains, failed>>
\* slip: only a check-in that was sent sets the next alarm.
UnboundEnds(b) ==
    /\ bufs[b] = "binding"
    /\ bufs' = [bufs EXCEPT ![b] = "free"]
    /\ UNCHANGED <<requests, checkIns, noResponses, fastPoll, starts, stops, chains, failed>>
\* send_check_in_validated(b, false).
Unbound(b) ==
    /\ bufs[b] = "binding"
    /\ bufs' = [bufs EXCEPT ![b] = "free"]
    /\ checkIns' = checkIns + 1
    /\ UNCHANGED <<requests, noResponses, fastPoll, starts, stops, chains, failed>>

\* slip: the no-response alarm is cancelled for good.
RearmedNot == OneLess(noResponses)
\* on_check_in_sent: cancelled, and set again from now.
Rearmed == OneLess(noResponses) + 1
OnCheckInSent(b, ok) ==
    /\ bufs[b] = "sending"
    /\ noResponses' = IF ok THEN Rearmed ELSE noResponses
    /\ bufs' = [bufs EXCEPT ![b] = "free"]
    /\ UNCHANGED <<requests, checkIns, fastPoll, starts, stops, chains, failed>>

OnNoResponse ==
    /\ noResponses > 0
    /\ noResponses' = noResponses - 1
    /\ fastPoll' = "off"
    /\ UNCHANGED <<bufs, requests, checkIns, starts, stops, chains, failed>>

-----------------------------------------------------------------------------
(* The client, and ZBOSS *)

\* on_check_in_response(start, timeout): the no-response alarm stays.
OnCheckInResponse(start) ==
    /\ starts > 0
    /\ fastPoll' = IF start THEN "client" ELSE fastPoll
    /\ UNCHANGED <<bufs, requests, checkIns, noResponses, starts, stops, chains, failed>>

OnFastPollStop ==
    /\ fastPoll' = "off"
    /\ UNCHANGED <<bufs, requests, checkIns, noResponses, starts, stops, chains, failed>>

\* The timeout of ZBOSS's own: zb_zdo_pim_set_fast_poll_timeout.
FastPollTimesOut ==
    /\ fastPoll # "off"
    /\ OnFastPollStop

-----------------------------------------------------------------------------
Confirmed(b) == \E ok \in BOOLEAN : OnCheckInSent(b, ok)
Validated(b) == Unbound(b) \/ \E place \in SendOutcomes : Bound(b, place)

Next == \/ Start \/ Stop
        \/ CheckInAlarm \/ OnNoResponse
        \/ \E b \in Bufs : GotBuffer(b) \/ Validated(b) \/ Confirmed(b)
        \/ \E start \in BOOLEAN : OnCheckInResponse(start)
        \/ OnFastPollStop \/ FastPollTimesOut

Spec == Init /\ [][Next]_vars

\* ZBOSS runs its alarms, gives a buffer when it has one, answers every bind
\* check and confirms every packet it took.
Fairness == /\ WF_vars(CheckInAlarm)
            /\ WF_vars(OnNoResponse)
            /\ WF_vars(\E b \in Bufs : GotBuffer(b))
            /\ \A b \in Bufs : WF_vars(Validated(b)) /\ WF_vars(Confirmed(b))

LiveSpec == Spec /\ Fairness

-----------------------------------------------------------------------------
(* Correctness *)

TypeOK ==
    /\ bufs \in [Bufs -> Places]
    /\ requests \in 0..MaxStarts /\ checkIns \in 0..MaxStarts
    /\ noResponses \in 0..MaxNoResponses
    /\ fastPoll \in {"off", "checkin", "client"}
    /\ starts \in 0..MaxStarts /\ stops \in 0..MaxStops
    /\ chains \in 0..MaxStarts
    /\ failed \subseteq Bufs

\* "schedule next check-in either way": every chain that was started and not
\* stopped is at exactly one place, waiting for an alarm, a buffer or a bind
\* check; it neither ends nor forks, whoever is bound and whatever is sent.
ChainsGoOn == requests + Cardinality(Binding) + checkIns = chains

\* While a check-in keeps the device awake, the alarm that lets it sleep
\* again is set, also after the confirmation has set it anew; stop() cancels
\* it and leaves the end to ZBOSS.
FastPollEnds == fastPoll = "checkin" /\ stops = 0 => noResponses > 0

\* What makes these inductive: a chain is started by a call of start().
Inv == TypeOK /\ ChainsGoOn /\ FastPollEnds /\ chains <= starts

\* Once started and until it is stopped, the device tries to check in again
\* and again, until there is no buffer left.
CheckInsRecur == chains > 0 ~> \/ Binding # {} \/ chains = 0
                               \/ \A b \in Bufs : bufs[b] = "lost"

\* Every buffer comes back to ZBOSS after every use, unless its packet could
\* not be sent.
BuffersComeBack == \A b \in Bufs : []<>(bufs[b] = "free") \/ <>(b \in failed)
=============================================================================
