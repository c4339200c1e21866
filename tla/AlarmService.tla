---------------------------- MODULE AlarmService ----------------------------
(***************************************************************************)
(* What the alarms of impl/zbm_alarm.hpp promise to the code that sets     *)
(* them up: an alarm that is set goes off once with the argument of its    *)
(* last Setup and not after a Cancel, and a Setup is refused only when     *)
(* MaxSize other alarms are armed or, if ZBOSS may refuse, by ZBOSS.       *)
(***************************************************************************)
EXTENDS Integers

CONSTANTS Alarms,      \* the alarm_t and timer_t objects
          Args,        \* what a callback may be called with
          None,        \* no argument
          MaxSize,     \* how many alarms can be armed at a time
          MayFail      \* may ZBOSS refuse to schedule?

VARIABLES armed,       \* the argument each alarm will be called with
          running      \* the callback that is being run: alarm and argument

NoFrame == [alarm |-> None, arg |-> None]

\* MaxSize alarms other than a are armed.
Full(a) == \E other \in [1..MaxSize -> Alarms \ {a}] :
              /\ \A i, j \in 1..MaxSize : other[i] = other[j] => i = j
              /\ \A i \in 1..MaxSize : armed[other[i]] # None

Init == /\ armed = [a \in Alarms |-> None]
        /\ running = NoFrame

Arm(a, x) == armed' = [armed EXCEPT ![a] = x]

Set(a, x)  == Arm(a, x) /\ UNCHANGED running
Refuse(a)  == (Full(a) \/ MayFail) /\ Arm(a, None) /\ UNCHANGED running
Cancel(a)  == Arm(a, None) /\ UNCHANGED running
GoesOff(a) == /\ armed[a] # None /\ running = NoFrame
              /\ running' = [alarm |-> a, arg |-> armed[a]]
              /\ Arm(a, None)
Return     == running' = NoFrame /\ UNCHANGED armed

\* A timer whose callback asks to go on is set again with its argument.
GoesOn == LET a == running.alarm
          IN  /\ running # NoFrame
              /\ \/ Arm(a, running.arg)
                 \/ (Full(a) \/ MayFail) /\ Arm(a, None)
              /\ running' = NoFrame

\* The device starts anew.
Reboot == armed' = [a \in Alarms |-> None] /\ running' = NoFrame

Next == \/ \E a \in Alarms : \/ \E x \in Args : Set(a, x)
                             \/ Refuse(a) \/ Cancel(a) \/ GoesOff(a)
        \/ Return \/ GoesOn \/ Reboot

Spec == Init /\ [][Next]_<<armed, running>>
=============================================================================
