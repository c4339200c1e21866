-------------------------------- MODULE Fifo --------------------------------
(***************************************************************************)
(* What a ring buffer promises: a queue that takes at least Room elements  *)
(* and gives them back in their order.                                     *)
(***************************************************************************)
EXTENDS Naturals, Sequences

CONSTANT Values

VARIABLES Room,      \* the template argument N
          queue,     \* the elements, the oldest first
          result     \* what the last operation returned

vars == <<Room, queue, result>>

Init == queue = <<>> /\ result = <<"none">>

Push(v) == queue' = Append(queue, v) /\ result' = <<"pushed", Len(queue) + 1>>

\* Only a queue that holds at least Room elements refuses another one.
Refuse == Len(queue) >= Room /\ result' = <<"refused">> /\ UNCHANGED queue

Pop == queue # <<>> /\ queue' = Tail(queue) /\ result' = <<"popped", Head(queue)>>

Drop == queue # <<>> /\ queue' = Tail(queue) /\ result' = <<"dropped">>

FindEmpty == queue = <<>> /\ result' = <<"empty">> /\ UNCHANGED queue

Peek == queue # <<>> /\ result' = <<"peeked", Head(queue)>> /\ UNCHANGED queue

Size == result' = <<"size", Len(queue)>> /\ UNCHANGED queue

Iterate == result' = <<"visited", queue>> /\ UNCHANGED queue

Next == /\ UNCHANGED Room
        /\ \/ \E v \in Values : Push(v)
           \/ Refuse \/ Pop \/ Drop \/ FindEmpty \/ Peek \/ Size \/ Iterate

Spec == Init /\ [][Next]_vars
=============================================================================
