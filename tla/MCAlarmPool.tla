---------------------------- MODULE MCAlarmPool ----------------------------
(***************************************************************************)
(* Instances of AlarmPool for TLC.  Alarms that are no timers are          *)
(* interchangeable, and so are timers.                                     *)
(***************************************************************************)
EXTENDS AlarmPool, TLC

AlarmSymmetry == Permutations(Timers) \cup Permutations(Alarms \ Timers)
=============================================================================
