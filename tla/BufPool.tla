------------------------------ MODULE BufPool ------------------------------
(***************************************************************************)
(* The pool of preallocated outgoing ZBOSS buffers of an endpoint:         *)
(* pre_alloc_zb_bufs_out<N> of impl/zbm_buf.hpp.  A pool is an array of N  *)
(* slots; a slot holds a buffer id or ZB_BUF_INVALID.  The operators are   *)
(* relations between a pool before and after a member function, so that    *)
(* the modules that own a pool use them on their variable and its prime.   *)
(***************************************************************************)
EXTENDS Integers

CONSTANTS Depth,   \* the template argument N, ep_a::cmd_queue_depth
          Bufs,    \* the ids zb_buf_get_out may return
          NoBuf    \* ZB_BUF_INVALID

ASSUME PoolAssumption == Depth \in Nat /\ NoBuf \notin Bufs

Slots == 1..Depth

Pools == [Slots -> Bufs \cup {NoBuf}]

\* The static initialiser bufs[N]{}: every slot is ZB_BUF_INVALID.
NoBuffers == [s \in Slots |-> NoBuf]

Holding(p) == {s \in Slots : p[s] # NoBuf}
Vacant(p)  == {s \in Slots : p[s] = NoBuf}

\* What a loop that walks an array from its beginning stops at.
IsFirst(s, S) == s \in S /\ \A u \in S : s <= u

\* No buffer sits in two slots.
Distinct(p) == \A s, u \in Holding(p) : p[s] = p[u] => s = u

\* init(): a buffer for each slot in turn until zb_buf_get_out has none.
Initialises(p) ==
    /\ p \in Pools
    /\ Distinct(p)
    /\ \A s \in Holding(p) : \A u \in 1..s : u \in Holding(p)

\* allocate(): the first buffer there is leaves its slot.
Allocates(p, b, q) ==
    \E s \in Slots : /\ IsFirst(s, Holding(p))
                     /\ b = p[s]
                     /\ q = [p EXCEPT ![s] = NoBuf]

\* deallocate(buf): the first vacant slot takes it; the caller handles the
\* case Vacant(p) = {}, in which the code asserts.
Deallocates(p, b, q) ==
    \E s \in Slots : /\ IsFirst(s, Vacant(p))
                     /\ q = [p EXCEPT ![s] = b]

\* An allocate() whose buffer is given back before the function returns.
GivesBack(p, b, q) ==
    \E s \in Slots : /\ IsFirst(s, Holding(p))
                     /\ b = p[s]
                     /\ Deallocates([p EXCEPT ![s] = NoBuf], b, q)
=============================================================================
