----------------------------- MODULE AlarmPool -----------------------------
(***************************************************************************)
(* Alarms and timers: alarm_t and timer_t of impl/zbm_alarm.hpp, the free  *)
(* list of handles they share, and the restart of a device that runs low   *)
(* on handles.                                                             *)
(*                                                                         *)
(* A list entry is a union: nextFree while its handle is free, the alarm   *)
(* and its argument while it is taken; writing one destroys the other.     *)
(* The scheduler of ZBOSS is external: it holds pairs of a callback and a  *)
(* handle, and calls each once.  Everything runs on its thread; a user     *)
(* callback is a frame in which alarms may be set up and cancelled.        *)
(* timer_ext_t and alarm_ext_t differ in where the callback is stored.     *)
(*                                                                         *)
(* A definition marked "slip" is a mistake the code could have made, kept  *)
(* beside what it would break; nothing of the specification uses it.       *)
(***************************************************************************)
EXTENDS Integers, FiniteSets

CONSTANTS kMaxSize,                 \* entries of the list (8 in the code)
          kLowOnHandlesThreshold,   \* the first handle that alarms (2)
          kCounterOfDeathValue,     \* ticks to the restart (6)
          Alarms,                   \* the alarm_t objects
          Timers,                   \* those of them that are timer_t
          Args,                     \* what a callback may be called with
          None,                     \* no alarm, no argument
          MayFail                   \* may zb_schedule_app_alarm fail?

ASSUME AlarmAssumption == /\ kMaxSize \in Nat \ {0}
                          /\ kLowOnHandlesThreshold \in Nat
                          /\ kCounterOfDeathValue \in 1..254
                          /\ Timers \subseteq Alarms
                          /\ None \notin Alarms \cup Args
                          /\ MayFail \in BOOLEAN

VARIABLES
    g_TimerList,            \* the head of the free list and the entries
    h,                      \* the handle of each alarm
    queue,                  \* what ZBOSS will call: callback and handle
    g_RunningOutOfHandles,
    g_CounterOfDeath,
    running,                \* the user callback that is being run
    crowded,                \* history: more alarms than the threshold ran at once
    ticks                   \* history: ticks while low since the counter was set

vars == <<g_TimerList, h, queue, g_RunningOutOfHandles, g_CounterOfDeath,
          running, crowded, ticks>>

Handles        == 0..(kMaxSize - 1)
kFull          == kMaxSize + 1
kInvalidHandle == kFull
kCounterOfDeathInactive == 255

\* The two views of the union; Garbage is what nextFree is after an alarm
\* was written over it.
Garbage        == kFull + 1
Links          == Handles \cup {kFull}
FreeEntry(n)   == [nextFree |-> n, pAlarm |-> None, param |-> None]
Entry(a, x)    == [nextFree |-> Garbage, pAlarm |-> a, param |-> x]
Entries        == {FreeEntry(n) : n \in Links} \cup {Entry(a, x) : a \in Alarms, x \in Args}

Kind(a)  == IF a \in Timers THEN "on_timer" ELSE "on_alarm"
Calls    == [cb : {"on_timer", "on_alarm"}, handle : Handles]
NoFrame  == [alarm |-> None, arg |-> None]
Frames   == [alarm : Alarms, arg : Args]

\* timer_list_t::Create(): every entry links to the next, the last to kFull.
Create == [head    |-> 0,
           entries |-> [i \in Handles |-> FreeEntry(IF i = kMaxSize - 1 THEN kFull ELSE i + 1)]]

IsRunning(a) == h[a] # kInvalidHandle

-----------------------------------------------------------------------------
(* The list *)

\* slip: the entry is linked but the head stays.
FreedUnlinked(l, i) == [l EXCEPT !.entries[i] = FreeEntry(l.head)]
\* Free(i): the handle becomes the head of the list.
Freed(l, i) == [head |-> i, entries |-> [l.entries EXCEPT ![i] = FreeEntry(l.head)]]

\* slip: the next handle in order becomes the head.
TakenInOrder(l, a, x) == [head    |-> l.head + 1,
                          entries |-> [l.entries EXCEPT ![l.head] = Entry(a, x)]]
\* Allocate() and the three assignments that fill the entry.
Taken(l, a, x) == [head    |-> l.entries[l.head].nextFree,
                   entries |-> [l.entries EXCEPT ![l.head] = Entry(a, x)]]

\* slip: Cancel forgets that ZBOSS knows the alarm by its own callback.
UnqueuedForeign(a) == queue \ {[cb |-> "on_alarm", handle |-> h[a]]}
\* The list and the queue after Cancel().
Unqueued(a)  == queue \ {[cb |-> Kind(a), handle |-> h[a]]}
\* slip: Setup does not give back the handle the alarm has.
CancelledNot(a) == g_TimerList
Cancelled(a) == IF IsRunning(a) THEN Freed(g_TimerList, h[a]) ELSE g_TimerList

-----------------------------------------------------------------------------
Init ==
    /\ g_TimerList = Create
    /\ h = [a \in Alarms |-> kInvalidHandle]
    /\ queue = {}
    /\ g_RunningOutOfHandles = FALSE
    /\ g_CounterOfDeath = kCounterOfDeathInactive
    /\ running = NoFrame
    /\ crowded = FALSE
    /\ ticks = 0

\* slip: the threshold is taken for a number of handles.
LowLate(i) == i > kLowOnHandlesThreshold
\* "soon we'll be out of handles"
Low(i) == i >= kLowOnHandlesThreshold

\* history: how many alarms run once the handles are hs.
Crowd(hs) == crowded' = (crowded \/ Cardinality({a \in Alarms : hs[a] # kInvalidHandle})
                                        > kLowOnHandlesThreshold)

\* slip: the alarm is scheduled before its old one is cancelled.
SchedulesFirst(a, i) == queue' = (queue \cup {[cb |-> Kind(a), handle |-> i]}) \ (queue \ Unqueued(a))
\* zb_schedule_app_alarm for the handle i, after Cancel().
Schedules(a, i) == \/ queue' = Unqueued(a) \cup {[cb |-> Kind(a), handle |-> i]}
                   \/ MayFail /\ queue' = Unqueued(a)

\* Setup: Cancel, take a handle, schedule.  When ZBOSS refuses, the alarm
\* keeps its handle; when no handle is left it has none (RET_NO_MEMORY).
SetupTo(a, x) ==
    LET l == Cancelled(a)
    IN  /\ IF l.head = kFull
           THEN /\ g_TimerList' = l
                /\ h' = [h EXCEPT ![a] = kInvalidHandle]
                /\ queue' = Unqueued(a)
                /\ UNCHANGED g_RunningOutOfHandles
           ELSE /\ g_TimerList' = Taken(l, a, x)
                /\ h' = [h EXCEPT ![a] = l.head]
                /\ Schedules(a, l.head)
                /\ g_RunningOutOfHandles' = (g_RunningOutOfHandles \/ Low(l.head))
        /\ Crowd(h')

Setup(a, x) ==
    /\ SetupTo(a, x)
    /\ UNCHANGED <<g_CounterOfDeath, running, ticks>>

Cancel(a) ==
    /\ IsRunning(a)
    /\ g_TimerList' = Cancelled(a)
    /\ queue' = Unqueued(a)
    /\ h' = [h EXCEPT ![a] = kInvalidHandle]
    /\ UNCHANGED <<g_RunningOutOfHandles, g_CounterOfDeath, running, crowded, ticks>>

\* slip: the handle goes back to the list but the alarm still has it.
OnScheduledAlarmKeepsHandle(q) ==
    /\ running = NoFrame
    /\ q \in queue
    /\ queue' = queue \ {q}
    /\ LET e == g_TimerList.entries[q.handle]
       IN  /\ g_TimerList' = Freed(g_TimerList, h[e.pAlarm])
           /\ running' = [alarm |-> e.pAlarm, arg |-> e.param]
    /\ UNCHANGED <<h, g_RunningOutOfHandles, g_CounterOfDeath, crowded, ticks>>

\* on_scheduled_alarm<CB>(handle): the entry is copied, its handle freed,
\* then the callback runs.
OnScheduledAlarm(q) ==
    /\ running = NoFrame
    /\ q \in queue
    /\ queue' = queue \ {q}
    /\ LET e == g_TimerList.entries[q.handle]
       IN  /\ g_TimerList' = Freed(g_TimerList, h[e.pAlarm])
           /\ h' = [h EXCEPT ![e.pAlarm] = kInvalidHandle]
           /\ running' = [alarm |-> e.pAlarm, arg |-> e.param]
    /\ UNCHANGED <<g_RunningOutOfHandles, g_CounterOfDeath, crowded, ticks>>

\* The callback returns; that of a timer returned false.
CallbackReturns ==
    /\ running # NoFrame
    /\ running' = NoFrame
    /\ UNCHANGED <<g_TimerList, h, queue, g_RunningOutOfHandles, g_CounterOfDeath, crowded, ticks>>

\* on_timer: the callback returned true and the timer is set up again,
\* whatever the callback did to it.
TimerGoesOn ==
    /\ running.alarm \in Timers
    /\ SetupTo(running.alarm, running.arg)
    /\ running' = NoFrame
    /\ UNCHANGED <<g_CounterOfDeath, ticks>>

-----------------------------------------------------------------------------
(* The counter of death; the application calls these when it sees fit *)

\* slip: the counter goes on.
DeactivateForgets ==
    /\ ticks' = 0
    /\ UNCHANGED <<g_TimerList, h, queue, g_RunningOutOfHandles, g_CounterOfDeath, running, crowded>>

DeactivateCounterOfDeath ==
    /\ g_CounterOfDeath' = kCounterOfDeathInactive
    /\ ticks' = 0
    /\ UNCHANGED <<g_TimerList, h, queue, g_RunningOutOfHandles, running, crowded>>

CheckCounterOfDeath ==
    /\ g_RunningOutOfHandles
    /\ g_CounterOfDeath' = kCounterOfDeathValue
    /\ ticks' = 0
    /\ UNCHANGED <<g_TimerList, h, queue, g_RunningOutOfHandles, running, crowded>>

Ticking == g_RunningOutOfHandles /\ g_CounterOfDeath # kCounterOfDeathInactive

CheckDeathCount ==
    /\ Ticking /\ g_CounterOfDeath # 1
    /\ g_CounterOfDeath' = g_CounterOfDeath - 1
    /\ ticks' = ticks + 1
    /\ UNCHANGED <<g_TimerList, h, queue, g_RunningOutOfHandles, running, crowded>>

\* The last tick: sys_reboot, after which every variable has its first value.
Reboot ==
    /\ Ticking /\ g_CounterOfDeath = 1
    /\ g_TimerList' = Create
    /\ h' = [a \in Alarms |-> kInvalidHandle]
    /\ queue' = {}
    /\ g_RunningOutOfHandles' = FALSE
    /\ g_CounterOfDeath' = kCounterOfDeathInactive
    /\ running' = NoFrame
    /\ crowded' = FALSE
    /\ ticks' = 0

-----------------------------------------------------------------------------
Next == \/ \E a \in Alarms : Cancel(a) \/ \E x \in Args : Setup(a, x)
        \/ \E q \in Calls : OnScheduledAlarm(q)
        \/ CallbackReturns \/ TimerGoesOn
        \/ DeactivateCounterOfDeath \/ CheckCounterOfDeath \/ CheckDeathCount \/ Reboot

Spec == Init /\ [][Next]_vars

\* ZBOSS calls every alarm it holds, also when timers go on for ever, and
\* callbacks return.
Fairness == /\ \A q \in Calls : SF_vars(OnScheduledAlarm(q))
            /\ WF_vars(CallbackReturns \/ TimerGoesOn)

LiveSpec == Spec /\ Fairness

-----------------------------------------------------------------------------
(* Correctness *)

TypeOK ==
    /\ g_TimerList \in [head : Links, entries : [Handles -> Entries]]
    /\ h \in [Alarms -> Handles \cup {kInvalidHandle}]
    /\ queue \in SUBSET Calls
    /\ g_RunningOutOfHandles \in BOOLEAN /\ crowded \in BOOLEAN
    /\ g_CounterOfDeath \in (1..kCounterOfDeathValue) \cup {kCounterOfDeathInactive}
    /\ running \in Frames \cup {NoFrame}
    /\ ticks \in 0..kCounterOfDeathValue

FreeOf(l) == {i \in Handles : l.entries[i].pAlarm = None}

\* order lists the free handles of l from its head to its end.
Orders(n) == [1..n -> Handles]
IsOrder(l, order, n) ==
    /\ \A i, j \in 1..n : order[i] = order[j] => i = j
    /\ {order[i] : i \in 1..n} = FreeOf(l)
    /\ l.head = IF n = 0 THEN kFull ELSE order[1]
    /\ \A i \in 1..n : l.entries[order[i]].nextFree = IF i = n THEN kFull ELSE order[i + 1]

\* The free list ends, and walks through every free handle once: nothing is
\* lost, shared or reached twice.
FreeListSound ==
    \E n \in 0..kMaxSize : \E order \in Orders(n) : IsOrder(g_TimerList, order, n)

\* A taken handle belongs to the alarm its entry names, so no two alarms
\* share one and no handle is taken by nobody.
Owned(l, hs) ==
    /\ \A i \in Handles \ FreeOf(l) : hs[l.entries[i].pAlarm] = i
    /\ \A a \in Alarms : hs[a] # kInvalidHandle => l.entries[hs[a]].pAlarm = a
HandlesOwned == Owned(g_TimerList, h)

\* ZBOSS will call only for alarms that are running, by their own callback:
\* on_scheduled_alarm never reads an entry of the free list.
QueueOwned ==
    \A q \in queue : \E a \in Alarms : h[a] = q.handle /\ Kind(a) = q.cb

\* The device is told that handles run low exactly when more alarms than
\* the threshold have been running at once, whatever was freed meanwhile.
LowWhenCrowded == g_RunningOutOfHandles <=> crowded

\* What makes this inductive: the handles below k have been taken once, the
\* others are the tail of the free list in their first order, and k is the
\* number of alarms that have been running at once.
Untouched(order, n, k) ==
    /\ kMaxSize - k <= n
    /\ \A j \in 1..n : IF j <= n - (kMaxSize - k)
                       THEN order[j] < k
                       ELSE order[j] = kMaxSize - 1 - (n - j)
LaidOut(l, k) == \E n \in 0..kMaxSize : \E order \in Orders(n) :
                    IsOrder(l, order, n) /\ Untouched(order, n, k)
Peak == \E k \in 0..kMaxSize : /\ LaidOut(g_TimerList, k)
                               /\ g_RunningOutOfHandles <=> k > kLowOnHandlesThreshold
                               /\ crowded <=> k > kLowOnHandlesThreshold

\* ... and the ticks are those that the counter has counted.
Counted == ticks = IF g_CounterOfDeath = kCounterOfDeathInactive
                   THEN 0 ELSE kCounterOfDeathValue - g_CounterOfDeath

Inv == TypeOK /\ HandlesOwned /\ QueueOwned /\ Peak /\ Counted

\* It restarts only when it was low for all the ticks of the counter since
\* the counter was last set, and nobody deactivated it.
RebootIsCounted == [][Reboot => crowded /\ ticks = kCounterOfDeathValue - 1]_vars

\* The promise to the users: see AlarmService.
Service == INSTANCE AlarmService WITH
    MaxSize <- kMaxSize,
    armed   <- [a \in Alarms |->
                   IF IsRunning(a) /\ [cb |-> Kind(a), handle |-> h[a]] \in queue
                   THEN g_TimerList.entries[h[a]].param ELSE None]
ImplementsService == Service!Spec

\* An alarm does not stay running, unless it is set up again and again.
AlarmsEnd ==
    \A a \in Alarms : []<>~IsRunning(a) \/ []<><<\E x \in Args : Setup(a, x)>>_vars
=============================================================================
