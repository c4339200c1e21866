----------------------------- MODULE CmdService -----------------------------
(***************************************************************************)
(* What an endpoint promises to the code that calls send_cmd: a request is *)
(* refused, posted (no callback was asked for) or accepted; an accepted    *)
(* request is answered exactly once, by the status of its own packet or by *)
(* a timeout, and at most Depth accepted requests wait for their answer.   *)
(* A refused request is never answered.                                    *)
(***************************************************************************)
EXTENDS Integers

CONSTANTS Depth,    \* how many requests may wait at a time
          Requests  \* every request ever made

VARIABLE request    \* what has become of each request

States == {"unmade", "refused", "posted", "waiting", "answered", "timed out"}

Waiting == {r \in Requests : request[r] = "waiting"}

\* Each of the requests can have one of the Depth places of the queue.
Fits(S) == \E place \in [S -> 1..Depth] :
              \A q, r \in S : place[q] = place[r] => q = r

Init == request = [r \in Requests |-> "unmade"]

Becomes(r, from, to) == /\ request[r] = from
                        /\ request' = [request EXCEPT ![r] = to]

Refuse(r) == Becomes(r, "unmade", "refused")
Post(r)   == Becomes(r, "unmade", "posted")
Accept(r) == Becomes(r, "unmade", "waiting") /\ Fits(Waiting \cup {r})
Answer(r) == Becomes(r, "waiting", "answered") \/ Becomes(r, "waiting", "timed out")

Next == \E r \in Requests : Refuse(r) \/ Post(r) \/ Accept(r) \/ Answer(r)

Safety == Init /\ [][Next]_request

Spec == Safety /\ \A r \in Requests : WF_request(Answer(r))

\* Every accepted request gets its answer.
AllAnswered ==
    \A r \in Requests : request[r] = "waiting" ~> request[r] \in {"answered", "timed out"}
=============================================================================
