--------------------------- MODULE CmdSend_proofs ---------------------------
(***************************************************************************)
(* Proofs about CmdSend, for every queue depth, set of buffers, id width   *)
(* and number of calls: the types, and that a command is answered at most  *)
(* once; and, as long as an alarm can always be scheduled, that no         *)
(* assertion fails, that every buffer has one owner and none is lost, that *)
(* every answer reaches the command it belongs to, and that the endpoint   *)
(* implements CmdService.                                                  *)
(***************************************************************************)
EXTENDS CmdSend, FiniteSetTheorems, TLAPS

-----------------------------------------------------------------------------
(* What the member functions of the pool do to it *)

\* The slots are finitely many, so the vacant ones can be counted.
LEMMA VacantFinite ==
    ASSUME NEW p \in Pools
    PROVE  IsFiniteSet(Vacant(p)) /\ Cardinality(Vacant(p)) \in Nat
  <1>1. IsFiniteSet(Slots)
    BY PoolAssumption, FS_Interval DEF Slots
  <1>2. Vacant(p) \in SUBSET Slots
    BY DEF Vacant
  <1> QED BY <1>1, <1>2, FS_Subset, FS_CardinalityType

\* allocate() takes a buffer out of one slot and leaves the others alone.
LEMMA AllocateLemma ==
    ASSUME NEW p \in Pools, NEW b, NEW q, Allocates(p, b, q)
    PROVE  /\ q \in Pools
           /\ b \in Bufs
           /\ Cardinality(Vacant(q)) = Cardinality(Vacant(p)) + 1
           /\ \E s \in Holding(p) : /\ b = p[s]
                                    /\ \A u \in Slots : q[u] = IF u = s THEN NoBuf ELSE p[u]
  <1>1. PICK s \in Slots : /\ s \in Holding(p)
                           /\ b = p[s]
                           /\ q = [p EXCEPT ![s] = NoBuf]
    BY DEF Allocates, IsFirst
  <1>2. q \in Pools
    BY <1>1 DEF Pools
  <1>3. b \in Bufs
    BY <1>1 DEF Pools, Holding
  <1>4. \A u \in Slots : q[u] = IF u = s THEN NoBuf ELSE p[u]
    BY <1>1 DEF Pools
  <1>5. Vacant(q) = Vacant(p) \cup {s} /\ s \notin Vacant(p)
    BY <1>1, <1>4 DEF Vacant, Holding
  <1>6. Cardinality(Vacant(q)) = Cardinality(Vacant(p)) + 1
    BY <1>5, VacantFinite, FS_AddElement
  <1> QED BY <1>1, <1>2, <1>3, <1>4, <1>6

\* deallocate(b) puts the buffer into one vacant slot.
LEMMA DeallocateLemma ==
    ASSUME NEW p \in Pools, NEW b \in Bufs, NEW q, Deallocates(p, b, q)
    PROVE  /\ q \in Pools
           /\ Cardinality(Vacant(q)) = Cardinality(Vacant(p)) - 1
           /\ \E s \in Vacant(p) : \A u \in Slots : q[u] = IF u = s THEN b ELSE p[u]
  <1>1. PICK s \in Slots : s \in Vacant(p) /\ q = [p EXCEPT ![s] = b]
    BY DEF Deallocates, IsFirst
  <1>2. q \in Pools
    BY <1>1 DEF Pools
  <1>3. \A u \in Slots : q[u] = IF u = s THEN b ELSE p[u]
    BY <1>1 DEF Pools
  <1>4. b # NoBuf
    BY PoolAssumption
  <1>5. Vacant(q) = Vacant(p) \ {s}
    BY <1>1, <1>3, <1>4 DEF Vacant
  <1>6. Cardinality(Vacant(q)) = Cardinality(Vacant(p)) - 1
    BY <1>1, <1>5, VacantFinite, FS_RemoveElement
  <1> QED BY <1>1, <1>2, <1>3, <1>6

\* A buffer that is given back may land in an earlier slot, but the pool
\* holds the same buffers, each once.
LEMMA GivesBackLemma ==
    ASSUME NEW p \in Pools, NEW b \in Bufs, NEW q, GivesBack(p, b, q)
    PROVE  /\ q \in Pools
           /\ Cardinality(Vacant(q)) = Cardinality(Vacant(p))
           /\ \A u \in Holding(q) : \E s \in Holding(p) : q[u] = p[s]
           /\ \A s \in Holding(p) : \E u \in Holding(q) : q[u] = p[s]
           /\ Distinct(p) => Distinct(q)
  <1>1. PICK s \in Slots : /\ IsFirst(s, Holding(p))
                           /\ b = p[s]
                           /\ Deallocates([p EXCEPT ![s] = NoBuf], b, q)
    BY DEF GivesBack
  <1> DEFINE m == [p EXCEPT ![s] = NoBuf]
  <1>2. Allocates(p, b, m)
    BY <1>1 DEF Allocates
  <1>3. m \in Pools /\ Cardinality(Vacant(m)) = Cardinality(Vacant(p)) + 1
    BY <1>2, AllocateLemma
  <1>4. \A u \in Slots : m[u] = IF u = s THEN NoBuf ELSE p[u]
    BY DEF Pools
  <1> HIDE DEF m
  <1>5. Deallocates(m, b, q)
    BY <1>1 DEF m
  <1>6. q \in Pools /\ Cardinality(Vacant(q)) = Cardinality(Vacant(m)) - 1
    BY <1>3, <1>5, DeallocateLemma
  <1>7. PICK v \in Vacant(m) : \A u \in Slots : q[u] = IF u = v THEN b ELSE m[u]
    BY <1>3, <1>5, DeallocateLemma
  <1>8. b # NoBuf /\ s \in Holding(p) /\ v \in Slots
    BY <1>1, <1>7, PoolAssumption DEF IsFirst, Vacant
  <1>9. Cardinality(Vacant(q)) = Cardinality(Vacant(p))
    BY <1>3, <1>6, VacantFinite
  <1>10. \A u \in Holding(q) : \E w \in Holding(p) : q[u] = p[w]
    BY <1>1, <1>4, <1>7, <1>8 DEF Holding
  <1>11. \A w \in Holding(p) : \E u \in Holding(q) : q[u] = p[w]
    BY <1>1, <1>4, <1>7, <1>8 DEF Holding, Vacant
  <1>12. ASSUME Distinct(p) PROVE Distinct(q)
    BY <1>1, <1>4, <1>7, <1>8, <1>12 DEF Distinct, Holding, Vacant
  <1> QED BY <1>6, <1>9, <1>10, <1>11, <1>12

-----------------------------------------------------------------------------
(* Types *)

LEMMA IdsLemma == /\ 0 \in CmdIds
                  /\ \A n \in CmdIds : (n + 1) % IdWrap \in CmdIds
  BY SendAssumption DEF CmdIds

LEMMA InitTypeOK == Init => TypeOK
  <1> SUFFICES ASSUME Init PROVE TypeOK
    OBVIOUS
  <1>1. g_PreAllocBufs \in Pools
    BY DEF Init, Pools, NoBuffers
  <1>2. g_IssuedCmds \in [Slots -> IssuedCmd]
    BY IdsLemma DEF Init, NoIssuedCmd, IssuedCmd
  <1>3. told \in [Tickets -> Returned]
    BY IdsLemma DEF Init, Returned
  <1>4. answers \in [Tickets -> Seq(Calls)]
    BY DEF Init
  <1>5. /\ ready \in BOOLEAN /\ asserted \in BOOLEAN
        /\ air \in SUBSET Packets /\ alarms \in SUBSET Packets
        /\ running \in Frames \cup {NoFrame}
    BY DEF Init
  <1>6. attempts \in 0..MaxSends /\ g_cmd_num \in CmdIds
    BY IdsLemma, SendAssumption DEF Init
  <1> QED BY <1>1, <1>2, <1>3, <1>4, <1>5, <1>6 DEF TypeOK

\* A call is numbered within the bound and its outcome is well formed.
LEMMA ReturnsTypeOK ==
    ASSUME TypeOK, Calling, NEW kind \in {"refused", "posted", "accepted"}, Returns(kind)
    PROVE  /\ Ticket \in Tickets
           /\ attempts' \in 0..MaxSends
           /\ told' \in [Tickets -> Returned]
           /\ ready' \in BOOLEAN
           /\ running' \in Frames \cup {NoFrame}
           /\ answers' \in [Tickets -> Seq(Calls)]
  <1>1. Ticket \in Tickets /\ attempts' \in 0..MaxSends
    BY SendAssumption DEF TypeOK, Calling, Returns, Ticket, Tickets
  <1>2. [kind |-> kind, id |-> g_cmd_num] \in Returned
    BY DEF TypeOK, Returned
  <1>3. told' \in [Tickets -> Returned]
    BY <1>1, <1>2 DEF TypeOK, Returns
  <1> QED BY <1>1, <1>3 DEF TypeOK, Returns

\* A callback is answered for the command of a used entry.
LEMMA CallBackTypeOK ==
    ASSUME TypeOK, NEW e \in Used, NEW of \in Tickets \cup {NoStatus},
           NEW b \in Bufs \cup {NoBuf}, CallBack(e, of, b), Free(e)
    PROVE  /\ g_IssuedCmds[e].ticket \in Tickets
           /\ g_IssuedCmds[e].cmd_id \in CmdIds
           /\ running' \in Frames \cup {NoFrame}
           /\ answers' \in [Tickets -> Seq(Calls)]
           /\ attempts' \in 0..MaxSends
           /\ told' \in [Tickets -> Returned]
           /\ g_IssuedCmds' \in [Slots -> IssuedCmd]
  <1> DEFINE c == g_IssuedCmds[e]
             call == [id |-> c.cmd_id, of |-> of]
  <1>1. e \in Slots /\ c \in IssuedCmd /\ c.buf # NoBuf
    BY DEF TypeOK, Used
  <1>2. c.ticket \in Tickets /\ c.cmd_id \in CmdIds
    BY <1>1 DEF IssuedCmd
  <1>3. call \in Calls
    BY <1>2 DEF Calls
  <1>4. running' \in Frames \cup {NoFrame}
    BY <1>2 DEF CallBack, Frames
  <1>5. Append(answers[c.ticket], call) \in Seq(Calls)
    BY <1>2, <1>3 DEF TypeOK
  <1>6. answers' = [answers EXCEPT ![c.ticket] = Append(answers[c.ticket], call)]
    BY DEF CallBack
  <1>7. answers' \in [Tickets -> Seq(Calls)]
    BY <1>5, <1>6 DEF TypeOK
  <1>8. [c EXCEPT !.buf = NoBuf] \in IssuedCmd
    BY <1>1 DEF IssuedCmd
  <1>9. g_IssuedCmds' = [g_IssuedCmds EXCEPT ![e] = [c EXCEPT !.buf = NoBuf]]
    BY DEF Free
  <1>10. g_IssuedCmds' \in [Slots -> IssuedCmd]
    BY <1>1, <1>8, <1>9 DEF TypeOK
  <1> QED BY <1>2, <1>4, <1>7, <1>10 DEF TypeOK, CallBack

LEMMA FillTypeOK ==
    ASSUME TypeOK, Ticket \in Tickets, NEW e \in Slots, NEW b \in Bufs \cup {NoBuf}, Fill(e, b)
    PROVE  g_IssuedCmds' \in [Slots -> IssuedCmd]
  <1>1. [buf |-> b, cmd_id |-> g_cmd_num, ticket |-> Ticket] \in IssuedCmd
    BY SendAssumption DEF TypeOK, IssuedCmd, Tickets
  <1> QED BY <1>1 DEF TypeOK, Fill

LEMMA InFlightTypeOK ==
    ASSUME TypeOK, Ticket \in Tickets, NEW b \in Bufs, InFlight(b)
    PROVE  air' \in SUBSET Packets
  BY DEF TypeOK, InFlight, Packets

LEMMA NextTypeOK == TypeOK /\ [Next]_vars => TypeOK'
  <1> SUFFICES ASSUME TypeOK, [Next]_vars PROVE TypeOK'
    OBVIOUS
  <1>1. CASE EpInit
    BY <1>1 DEF EpInit, TypeOK, history
  <1>2. CASE SendWithoutBuffer
    <2>1. Calling /\ Returns("refused")
      BY <1>2 DEF SendWithoutBuffer
    <2> QED BY <1>2, <2>1, ReturnsTypeOK DEF SendWithoutBuffer, TypeOK
  <1>3. CASE SendWithoutEntry
    <2>1. PICK b \in Bufs : Allocates(g_PreAllocBufs, b, g_PreAllocBufs')
      BY <1>3 DEF SendWithoutEntry
    <2>2. g_PreAllocBufs' \in Pools
      BY <2>1, AllocateLemma DEF TypeOK
    <2> QED BY <1>3, <2>2 DEF SendWithoutEntry, TypeOK, history
  <1>4. CASE SendRejected
    <2>1. PICK b \in Bufs : GivesBack(g_PreAllocBufs, b, g_PreAllocBufs')
      BY <1>4 DEF SendRejected
    <2>2. g_PreAllocBufs' \in Pools
      BY <2>1, GivesBackLemma DEF TypeOK
    <2>3. Calling /\ Returns("refused")
      BY <1>4 DEF SendRejected
    <2> QED BY <1>4, <2>2, <2>3, ReturnsTypeOK DEF SendRejected, TypeOK
  <1>5. CASE SendUntracked
    <2>1. PICK b \in Bufs : Allocates(g_PreAllocBufs, b, g_PreAllocBufs') /\ InFlight(b)
      BY <1>5 DEF SendUntracked
    <2>2. g_PreAllocBufs' \in Pools
      BY <2>1, AllocateLemma DEF TypeOK
    <2>3. Calling /\ Returns("posted")
      BY <1>5 DEF SendUntracked
    <2>4. Ticket \in Tickets
      BY <2>3, ReturnsTypeOK
    <2>5. air' \in SUBSET Packets
      BY <2>1, <2>4, InFlightTypeOK
    <2>6. g_cmd_num' \in CmdIds
      BY <1>5, IdsLemma DEF SendUntracked, NextId, TypeOK
    <2> QED BY <1>5, <2>2, <2>3, <2>5, <2>6, ReturnsTypeOK DEF SendUntracked, TypeOK
  <1>6. CASE SendTracked
    <2>1. PICK b \in Bufs, e \in Slots :
              /\ Allocates(g_PreAllocBufs, b, g_PreAllocBufs') /\ InFlight(b) /\ Fill(e, b)
              /\ alarms' = alarms \cup {[buf |-> b, ticket |-> Ticket]}
      BY <1>6 DEF SendTracked
    <2>2. g_PreAllocBufs' \in Pools
      BY <2>1, AllocateLemma DEF TypeOK
    <2>3. Calling /\ Returns("accepted")
      BY <1>6 DEF SendTracked
    <2>4. Ticket \in Tickets
      BY <2>3, ReturnsTypeOK
    <2>5. air' \in SUBSET Packets /\ alarms' \in SUBSET Packets
      BY <2>1, <2>4, InFlightTypeOK DEF TypeOK, Packets
    <2>6. g_IssuedCmds' \in [Slots -> IssuedCmd]
      BY <2>1, <2>4, FillTypeOK
    <2>7. g_cmd_num' \in CmdIds
      BY <1>6, IdsLemma DEF SendTracked, NextId, TypeOK
    <2> QED BY <1>6, <2>2, <2>3, <2>5, <2>6, <2>7, ReturnsTypeOK DEF SendTracked, TypeOK
  <1>7. CASE SendWithoutAlarm
    <2>1. PICK b \in Bufs, e \in Slots :
              GivesBack(g_PreAllocBufs, b, g_PreAllocBufs') /\ InFlight(b) /\ Fill(e, NoBuf)
      BY <1>7 DEF SendWithoutAlarm
    <2>2. g_PreAllocBufs' \in Pools
      BY <2>1, GivesBackLemma DEF TypeOK
    <2>3. Calling /\ Returns("refused")
      BY <1>7 DEF SendWithoutAlarm
    <2>4. Ticket \in Tickets
      BY <2>3, ReturnsTypeOK
    <2>5. air' \in SUBSET Packets
      BY <2>1, <2>4, InFlightTypeOK
    <2>6. g_IssuedCmds' \in [Slots -> IssuedCmd]
      BY <2>1, <2>4, FillTypeOK
    <2> QED BY <1>7, <2>2, <2>3, <2>5, <2>6, ReturnsTypeOK DEF SendWithoutAlarm, TypeOK
  <1>8. ASSUME NEW a \in Packets, OnSendCmdTimeout(a) PROVE TypeOK'
    <2>1. CASE EntriesOf(a.buf) = {}
      BY <1>8, <2>1 DEF OnSendCmdTimeout, TypeOK, history
    <2>2. CASE EntriesOf(a.buf) # {}
      <3>1. PICK e \in Slots : IsFirst(e, EntriesOf(a.buf)) /\ Free(e) /\ CallBack(e, NoStatus, NoBuf)
        BY <1>8, <2>2 DEF OnSendCmdTimeout
      <3>2. e \in Used
        BY <3>1, PoolAssumption DEF IsFirst, EntriesOf, Used, Packets
      <3> QED BY <1>8, <2>2, <3>1, <3>2, CallBackTypeOK DEF OnSendCmdTimeout, TypeOK
    <2> QED BY <2>1, <2>2
  <1>9. ASSUME NEW p \in Packets, OnSendCmdCb(p) PROVE TypeOK'
    <2>1. PICK e \in Slots : IsFirst(e, EntriesOf(p.buf)) /\ Free(e) /\ CallBack(e, p.ticket, p.buf)
      BY <1>9 DEF OnSendCmdCb
    <2>2. e \in Used
      BY <2>1, PoolAssumption DEF IsFirst, EntriesOf, Used, Packets
    <2>3. g_PreAllocBufs' \in Pools
      BY <1>9, DeallocateLemma DEF OnSendCmdCb, TypeOK, Packets
    <2>4. alarms' \in SUBSET Packets
      BY <1>9 DEF OnSendCmdCb, Cancel, TypeOK
    <2>5. p.ticket \in Tickets /\ p.buf \in Bufs
      BY DEF Packets
    <2> QED BY <1>9, <2>1, <2>2, <2>3, <2>4, <2>5, CallBackTypeOK DEF OnSendCmdCb, TypeOK
  <1>10. ASSUME NEW p \in Packets, OnSendCmdCbUnmatched(p) PROVE TypeOK'
    <2>1. g_PreAllocBufs' \in Pools
      BY <1>10, DeallocateLemma DEF OnSendCmdCbUnmatched, TypeOK, Packets
    <2> QED BY <1>10, <2>1 DEF OnSendCmdCbUnmatched, TypeOK, history
  <1>11. ASSUME NEW p \in Packets, OnSendCmdCbPoolFull(p) PROVE TypeOK'
    BY <1>11 DEF OnSendCmdCbPoolFull, Cancel, TypeOK, history
  <1>12. CASE CallBackReturns
    BY <1>12 DEF CallBackReturns, TypeOK, history
  <1>13. CASE UNCHANGED vars
    BY <1>13 DEF vars, code, history, TypeOK
  <1> QED
    BY <1>1, <1>2, <1>3, <1>4, <1>5, <1>6, <1>7, <1>8, <1>9, <1>10, <1>11, <1>12, <1>13
    DEF Next, Send

\* Every variable keeps its type, also when alarms fail.
THEOREM TypeCorrect == Spec => []TypeOK
  BY InitTypeOK, NextTypeOK, PTL DEF Spec

-----------------------------------------------------------------------------
(* Counting: there is an entry and a slot whenever the code needs one *)

\* The entries in use are no more than the packets in flight: each waits for
\* a packet of its own.
LEMMA UsedWithinAir ==
    ASSUME WaitsForOwnPacket, Room
    PROVE  IsFiniteSet(Used) /\ Cardinality(Used) <= Cardinality(air)
  <1> DEFINE f == [e \in Used |-> Awaited(e)]
  <1>1. f \in [Used -> air]
    BY DEF WaitsForOwnPacket
  <1>2. \A d, e \in Used : f[d] = f[e] => d = e
    BY DEF WaitsForOwnPacket
  <1>3. f \in Injection(Used, air)
    BY <1>1, <1>2 DEF Injection, IsInjective
  <1> HIDE DEF f
  <1> QED BY <1>3, FS_Injection DEF Room

\* A call that can allocate a buffer finds a free entry.
LEMMA EntryForBuffer ==
    ASSUME TypeOK, WaitsForOwnPacket, Room, Holding(g_PreAllocBufs) # {}
    PROVE  Used # Slots /\ Cardinality(Used) < Depth
  <1>1. IsFiniteSet(Slots) /\ Cardinality(Slots) = Depth
    BY PoolAssumption, FS_Interval DEF Slots
  <1>2. Vacant(g_PreAllocBufs) \in SUBSET Slots /\ Vacant(g_PreAllocBufs) # Slots
    BY DEF Vacant, Holding
  <1>3. /\ IsFiniteSet(Vacant(g_PreAllocBufs))
        /\ Cardinality(Vacant(g_PreAllocBufs)) <= Cardinality(Slots)
        /\ Cardinality(Vacant(g_PreAllocBufs)) # Cardinality(Slots)
    BY <1>1, <1>2, FS_Subset
  <1>4. IsFiniteSet(Used) /\ Cardinality(Used) <= Cardinality(air)
    BY UsedWithinAir
  <1>5. /\ Cardinality(Used) \in Nat /\ Cardinality(air) \in Nat
        /\ Cardinality(Vacant(g_PreAllocBufs)) \in Nat
    BY <1>3, <1>4, FS_CardinalityType DEF Room
  <1>6. Cardinality(Used) < Depth
    BY <1>1, <1>3, <1>4, <1>5, PoolAssumption DEF Room
  <1> QED BY <1>1, <1>6, PoolAssumption

\* A packet in flight has a vacant slot its buffer can go back to.
LEMMA SlotForPacket ==
    ASSUME TypeOK, Room, NEW p \in air
    PROVE  Vacant(g_PreAllocBufs) # {}
  <1>1. Cardinality(air) \in Nat /\ Cardinality(air) # 0
    BY FS_CardinalityType, FS_EmptySet DEF Room
  <1> QED BY <1>1, FS_EmptySet DEF Room

-----------------------------------------------------------------------------
(* Ownership: what each use of the pool does to OneOwner and Room *)

LEMMA AllocateOwner ==
    ASSUME TypeOK, OneOwner, Room, Recorded, Calling, NEW b,
           Allocates(g_PreAllocBufs, b, g_PreAllocBufs'), InFlight(b)
    PROVE  OneOwner' /\ Room'
  <1> DEFINE np == [buf |-> b, ticket |-> Ticket]
  <1>1. PICK s \in Holding(g_PreAllocBufs) :
            /\ b = g_PreAllocBufs[s]
            /\ \A u \in Slots : g_PreAllocBufs'[u] = IF u = s THEN NoBuf ELSE g_PreAllocBufs[u]
    BY AllocateLemma DEF TypeOK
  <1>2. /\ g_PreAllocBufs' \in Pools /\ b \in Bufs
        /\ Cardinality(Vacant(g_PreAllocBufs')) = Cardinality(Vacant(g_PreAllocBufs)) + 1
    BY AllocateLemma DEF TypeOK
  <1>3. s \in Slots /\ b # NoBuf
    BY <1>1 DEF Holding
  <1>4. \A p \in air : p.buf # b
    BY <1>1, <1>3 DEF OneOwner
  <1>5. air' = air \cup {np} /\ np \notin air
    BY <1>4 DEF InFlight
  <1>6. Distinct(g_PreAllocBufs')
    BY <1>1, <1>3 DEF OneOwner, Distinct, Holding
  <1>7. \A p, q \in air' : p.buf = q.buf => p = q
    BY <1>4, <1>5 DEF OneOwner
  <1>8. \A p \in air' : \A u \in Slots : g_PreAllocBufs'[u] # p.buf
    <2> SUFFICES ASSUME NEW p \in air', NEW u \in Slots PROVE g_PreAllocBufs'[u] # p.buf
      OBVIOUS
    <2>1. CASE u = s
      <3>1. p.buf \in Bufs
        BY <1>2, <1>5 DEF TypeOK, Packets
      <3> QED BY <1>1, <2>1, <3>1, PoolAssumption
    <2>2. CASE u # s /\ p \in air
      BY <1>1, <2>2 DEF OneOwner
    <2>3. CASE u # s /\ p = np
      BY <1>1, <1>3, <2>3 DEF OneOwner, Distinct, Holding
    <2> QED BY <1>5, <2>1, <2>2, <2>3
  <1>9. Room'
    <2>1. IsFiniteSet(air') /\ Cardinality(air') = Cardinality(air) + 1
      BY <1>5, FS_AddElement DEF Room
    <2>2. Cardinality(air) \in Nat /\ Cardinality(Vacant(g_PreAllocBufs)) \in Nat
      BY FS_CardinalityType, VacantFinite DEF Room, TypeOK
    <2>3. Cardinality(air') <= Cardinality(Vacant(g_PreAllocBufs'))
      BY <1>2, <2>1, <2>2 DEF Room
    <2> QED BY <2>1, <2>3 DEF Room
  <1> QED BY <1>6, <1>7, <1>8, <1>9 DEF OneOwner

LEMMA GivesBackOwner ==
    ASSUME TypeOK, OneOwner, Room, UNCHANGED air, NEW b \in Bufs,
           GivesBack(g_PreAllocBufs, b, g_PreAllocBufs')
    PROVE  OneOwner' /\ Room'
  <1>1. /\ g_PreAllocBufs' \in Pools
        /\ Cardinality(Vacant(g_PreAllocBufs')) = Cardinality(Vacant(g_PreAllocBufs))
        /\ \A u \in Holding(g_PreAllocBufs') :
              \E s \in Holding(g_PreAllocBufs) : g_PreAllocBufs'[u] = g_PreAllocBufs[s]
        /\ Distinct(g_PreAllocBufs) => Distinct(g_PreAllocBufs')
    BY GivesBackLemma DEF TypeOK
  <1>2. ASSUME NEW p \in air, NEW u \in Slots, g_PreAllocBufs'[u] = p.buf PROVE FALSE
    <2>1. u \in Holding(g_PreAllocBufs')
      BY <1>2, PoolAssumption DEF Holding, TypeOK, Packets
    <2> QED BY <1>1, <1>2, <2>1 DEF OneOwner, Holding
  <1> QED BY <1>1, <1>2 DEF OneOwner, Room

LEMMA DeallocateOwner ==
    ASSUME TypeOK, OneOwner, Room, NEW p \in air, air' = air \ {p},
           Deallocates(g_PreAllocBufs, p.buf, g_PreAllocBufs')
    PROVE  OneOwner' /\ Room'
  <1>1. p.buf \in Bufs /\ p.buf # NoBuf
    BY PoolAssumption DEF TypeOK, Packets
  <1>2. PICK s \in Vacant(g_PreAllocBufs) :
            \A u \in Slots : g_PreAllocBufs'[u] = IF u = s THEN p.buf ELSE g_PreAllocBufs[u]
    BY <1>1, DeallocateLemma DEF TypeOK
  <1>3. /\ g_PreAllocBufs' \in Pools
        /\ Cardinality(Vacant(g_PreAllocBufs')) = Cardinality(Vacant(g_PreAllocBufs)) - 1
    BY <1>1, DeallocateLemma DEF TypeOK
  <1>4. Distinct(g_PreAllocBufs')
    BY <1>2 DEF OneOwner, Distinct, Holding
  <1>5. \A q \in air' : \A u \in Slots : g_PreAllocBufs'[u] # q.buf
    BY <1>2 DEF OneOwner
  <1>6. IsFiniteSet(air') /\ Cardinality(air') = Cardinality(air) - 1
    BY FS_RemoveElement DEF Room
  <1>7. Cardinality(air) \in Nat /\ Cardinality(Vacant(g_PreAllocBufs)) \in Nat
    BY FS_CardinalityType, VacantFinite DEF Room, TypeOK
  <1>8. Cardinality(air') <= Cardinality(Vacant(g_PreAllocBufs'))
    BY <1>3, <1>6, <1>7 DEF Room
  <1> QED BY <1>4, <1>5, <1>6, <1>8 DEF OneOwner, Room

-----------------------------------------------------------------------------
(* Entries: who waits, and what the history says of it *)

\* Facts of the history after a call that is not accepted.
LEMMA NotAccepted ==
    ASSUME TypeOK, Inv, Calling, NEW kind \in {"refused", "posted"}, Returns(kind),
           Used' = Used, \A e \in Used : g_IssuedCmds'[e] = g_IssuedCmds[e],
           \A p \in air' : p \in air \/ p.ticket = Ticket,
           \A p, q \in air' : p.ticket = Ticket /\ q.ticket = Ticket => p = q
    PROVE  Recorded' /\ OwnAnswer' /\ AnsweredAtMostOnce'
  <1>1. /\ Ticket \in Tickets /\ attempts' = Ticket /\ attempts \in Nat
        /\ Ticket = attempts + 1
        /\ answers' = answers
        /\ told' = [told EXCEPT ![Ticket] = [kind |-> kind, id |-> g_cmd_num]]
    <2>1. Ticket \in Tickets
      BY ReturnsTypeOK
    <2>2. attempts \in Nat
      BY SendAssumption DEF TypeOK
    <2> QED BY <2>1, <2>2 DEF Returns, Ticket
  <1>2. told[Ticket].kind = "unmade" /\ answers[Ticket] = <<>>
    BY <1>1 DEF Inv, Recorded
  <1>3. \A t \in Tickets : told'[t] = IF t = Ticket THEN [kind |-> kind, id |-> g_cmd_num] ELSE told[t]
    BY <1>1 DEF TypeOK
  <1>4. \A p \in air : p.ticket \in Tickets /\ p.ticket <= attempts /\ p.ticket # Ticket
    BY <1>1 DEF Inv, Recorded, TypeOK, Packets, Tickets
  <1>5. \A e \in Used : g_IssuedCmds[e].ticket \in Tickets /\ g_IssuedCmds[e].ticket # Ticket
    BY <1>4 DEF Inv, WaitsForOwnPacket, Awaited
  <1>6. Recorded'
    <2>1. \A t \in Tickets : t > attempts' => told'[t].kind = "unmade" /\ answers'[t] = <<>>
      BY <1>1, <1>3 DEF Inv, Recorded, Tickets
    <2>2. \A p \in air' : p.ticket <= attempts'
      BY <1>1, <1>4 DEF Tickets
    <2>3. \A p, q \in air' : p.ticket = q.ticket => p = q
      BY <1>4 DEF Inv, Recorded
    <2>4. \A e \in Used' : LET c == g_IssuedCmds'[e]
                           IN  /\ told'[c.ticket] = [kind |-> "accepted", id |-> c.cmd_id]
                               /\ answers'[c.ticket] = <<>>
      BY <1>1, <1>3, <1>5 DEF Inv, Recorded
    <2>5. \A t \in Tickets : told'[t].kind = "accepted" /\ answers'[t] = <<>>
                             => \E e \in Used' : g_IssuedCmds'[e].ticket = t
      BY <1>1, <1>3 DEF Inv, Recorded
    <2> QED BY <2>1, <2>2, <2>3, <2>4, <2>5 DEF Recorded
  <1>7. OwnAnswer'
    <2> SUFFICES ASSUME NEW t \in Tickets, NEW i \in DOMAIN answers[t]
                 PROVE  /\ told'[t].kind = "accepted"
                        /\ answers[t][i].id = told'[t].id
                        /\ answers[t][i].of \in {t, NoStatus}
      BY <1>1 DEF OwnAnswer
    <2>1. t # Ticket
      BY <1>2
    <2> QED BY <1>3, <2>1 DEF Inv, OwnAnswer
  <1>8. AnsweredAtMostOnce'
    BY <1>1, <1>2, <1>3 DEF Inv, AnsweredAtMostOnce
  <1> QED BY <1>6, <1>7, <1>8

\* A confirmed buffer belongs to at most one entry, which waits for exactly
\* the packet that is confirmed.
LEMMA MatchLemma ==
    ASSUME TypeOK, OneOwner, WaitsForOwnPacket, NEW p \in air, NEW e \in EntriesOf(p.buf)
    PROVE  /\ e \in Used /\ Awaited(e) = p
           /\ \A d \in Used : d # e => Awaited(d) # p
           /\ Cancel(p.buf) => alarms' = alarms \ {p}
  <1>1. e \in Used
    BY PoolAssumption DEF EntriesOf, Used, TypeOK, Packets
  <1>2. Awaited(e) = p
    BY <1>1 DEF WaitsForOwnPacket, OneOwner, Awaited, EntriesOf
  <1>3. \A d \in Used : d # e => Awaited(d) # p
    BY <1>1, <1>2 DEF WaitsForOwnPacket
  <1>4. \A a \in alarms : a.buf = p.buf => a = p
    BY DEF WaitsForOwnPacket, OneOwner
  <1>5. p \in alarms
    BY <1>1, <1>2 DEF WaitsForOwnPacket
  <1>6. Cancel(p.buf) => alarms' = alarms \ {p}
    BY <1>4, <1>5 DEF Cancel
  <1> QED BY <1>1, <1>2, <1>3, <1>6

\* The callback of entry e: the entry is free, the other entries stay, and
\* its command has its one answer.
LEMMA AnswerLemma ==
    ASSUME TypeOK, Inv, NEW e \in Used, NEW p \in air, Awaited(e) = p,
           NEW of \in {p.ticket, NoStatus}, NEW b \in Bufs \cup {NoBuf},
           Free(e), CallBack(e, of, b), alarms' = alarms \ {p},
           air' \in {air, air \ {p}}
    PROVE  WaitsForOwnPacket' /\ Recorded' /\ OwnAnswer' /\ AnsweredAtMostOnce'
  <1> DEFINE c == g_IssuedCmds[e]
  <1>1. /\ e \in Slots /\ c.buf \in Bufs /\ c.ticket = p.ticket /\ p.ticket \in Tickets
        /\ of \in Tickets \cup {NoStatus}
    BY DEF Used, Awaited, TypeOK, Packets
  <1>2. g_IssuedCmds' = [g_IssuedCmds EXCEPT ![e].buf = NoBuf]
    BY DEF Free
  <1>3. \A d \in Slots : d # e => g_IssuedCmds'[d] = g_IssuedCmds[d]
    BY <1>2 DEF TypeOK
  <1>4. g_IssuedCmds'[e].buf = NoBuf
    BY <1>1, <1>2 DEF TypeOK, IssuedCmd
  <1>5. Used' = Used \ {e}
    BY <1>3, <1>4 DEF Used
  <1>6. \A d \in Used' : Awaited(d)' = Awaited(d)
    BY <1>3, <1>5 DEF Awaited, Used
  <1>7. \A d \in Used' : Awaited(d) # p
    BY <1>5 DEF Inv, WaitsForOwnPacket
  <1>8. WaitsForOwnPacket'
    <2>1. \A d \in Used' : Awaited(d)' \in air'
      BY <1>5, <1>6, <1>7 DEF Inv, WaitsForOwnPacket
    <2>2. \A d, f \in Used' : Awaited(d)' = Awaited(f)' => d = f
      BY <1>5, <1>6 DEF Inv, WaitsForOwnPacket
    <2>3. alarms' = {Awaited(d)' : d \in Used'}
      BY <1>5, <1>6, <1>7 DEF Inv, WaitsForOwnPacket
    <2> QED BY <2>1, <2>2, <2>3 DEF WaitsForOwnPacket
  <1>9. answers[p.ticket] = <<>> /\ told[p.ticket] = [kind |-> "accepted", id |-> c.cmd_id]
    BY <1>1 DEF Inv, Recorded
  <1>10. /\ told' = told /\ attempts' = attempts
         /\ answers' = [answers EXCEPT ![p.ticket] = Append(<<>>, [id |-> c.cmd_id, of |-> of])]
    BY <1>1, <1>9 DEF CallBack
  <1>11. \A t \in Tickets : answers'[t] = IF t = p.ticket THEN <<[id |-> c.cmd_id, of |-> of]>> ELSE answers[t]
    BY <1>10 DEF TypeOK
  <1>12. \A d \in Used' : g_IssuedCmds[d].ticket \in Tickets /\ g_IssuedCmds[d].ticket # p.ticket
    <2> SUFFICES ASSUME NEW d \in Used'
                 PROVE  g_IssuedCmds[d].ticket \in Tickets /\ g_IssuedCmds[d].ticket # p.ticket
      OBVIOUS
    <2>1. Awaited(d) \in air /\ Awaited(d) # p
      BY <1>5, <1>7 DEF Inv, WaitsForOwnPacket
    <2>2. Awaited(d).ticket # p.ticket /\ Awaited(d).ticket \in Tickets
      BY <2>1 DEF Inv, Recorded, TypeOK, Packets
    <2> QED BY <2>2 DEF Awaited
  <1>13. Recorded'
    <2>1. \A t \in Tickets : t > attempts' => told'[t].kind = "unmade" /\ answers'[t] = <<>>
      BY <1>9, <1>10, <1>11 DEF Inv, Recorded
    <2>2. \A q \in air' : q.ticket <= attempts'
      BY <1>10 DEF Inv, Recorded
    <2>3. \A q, r \in air' : q.ticket = r.ticket => q = r
      BY DEF Inv, Recorded
    <2>4. ASSUME NEW d \in Used'
          PROVE  LET q == g_IssuedCmds'[d]
                 IN  /\ told'[q.ticket] = [kind |-> "accepted", id |-> q.cmd_id]
                     /\ answers'[q.ticket] = <<>>
      <3>1. d \in Used /\ g_IssuedCmds'[d] = g_IssuedCmds[d]
        BY <1>3, <1>5 DEF Used
      <3>2. /\ told[g_IssuedCmds[d].ticket] = [kind |-> "accepted", id |-> g_IssuedCmds[d].cmd_id]
            /\ answers[g_IssuedCmds[d].ticket] = <<>>
        BY <3>1 DEF Inv, Recorded
      <3> QED BY <1>10, <1>11, <1>12, <3>1, <3>2
    <2>5. \A t \in Tickets : told'[t].kind = "accepted" /\ answers'[t] = <<>>
                             => \E d \in Used' : g_IssuedCmds'[d].ticket = t
      BY <1>1, <1>3, <1>5, <1>10, <1>11 DEF Inv, Recorded, Used
    <2> QED BY <2>1, <2>2, <2>3, <2>4, <2>5 DEF Recorded
  <1>14. OwnAnswer'
    BY <1>1, <1>9, <1>10, <1>11 DEF Inv, OwnAnswer
  <1>15. AnsweredAtMostOnce'
    BY <1>1, <1>9, <1>10, <1>11 DEF Inv, AnsweredAtMostOnce
  <1> QED BY <1>8, <1>13, <1>14, <1>15

\* An accepted call: its entry waits for its packet.
LEMMA AcceptLemma ==
    ASSUME TypeOK, Inv, Calling, Returns("accepted"), NEW b \in Bufs, NEW e \in FreeEntries,
           Fill(e, b), InFlight(b), \A p \in air : p.buf # b,
           alarms' = alarms \cup {[buf |-> b, ticket |-> Ticket]}
    PROVE  WaitsForOwnPacket' /\ Recorded' /\ OwnAnswer' /\ AnsweredAtMostOnce'
  <1> DEFINE np == [buf |-> b, ticket |-> Ticket]
             entry == [buf |-> b, cmd_id |-> g_cmd_num, ticket |-> Ticket]
  <1>1. /\ Ticket \in Tickets /\ attempts' = Ticket /\ attempts \in Nat
        /\ Ticket = attempts + 1
        /\ answers' = answers
        /\ told' = [told EXCEPT ![Ticket] = [kind |-> "accepted", id |-> g_cmd_num]]
    <2>1. Ticket \in Tickets
      BY ReturnsTypeOK
    <2>2. attempts \in Nat
      BY SendAssumption DEF TypeOK
    <2> QED BY <2>1, <2>2 DEF Returns, Ticket
  <1>2. told[Ticket].kind = "unmade" /\ answers[Ticket] = <<>>
    BY <1>1 DEF Inv, Recorded
  <1>3. \A t \in Tickets : told'[t] = IF t = Ticket THEN [kind |-> "accepted", id |-> g_cmd_num] ELSE told[t]
    BY <1>1 DEF TypeOK
  <1>4. \A p \in air : p.ticket \in Tickets /\ p.ticket <= attempts /\ p.ticket # Ticket
    BY <1>1 DEF Inv, Recorded, TypeOK, Packets, Tickets
  <1>5. \A d \in Used : g_IssuedCmds[d].ticket \in Tickets /\ g_IssuedCmds[d].ticket # Ticket
    BY <1>4 DEF Inv, WaitsForOwnPacket, Awaited
  <1>6. /\ e \in Slots /\ e \notin Used /\ b # NoBuf
        /\ \A d \in Slots : g_IssuedCmds'[d] = IF d = e THEN entry ELSE g_IssuedCmds[d]
    BY PoolAssumption DEF FreeEntries, Fill, TypeOK
  <1>7. Used' = Used \cup {e}
    BY <1>6 DEF Used
  <1>8. Awaited(e)' = np /\ \A d \in Used : Awaited(d)' = Awaited(d)
    BY <1>6 DEF Awaited, Used
  <1>9. air' = air \cup {np} /\ np \notin air
    BY DEF InFlight
  <1>10. WaitsForOwnPacket'
    <2>1. \A d \in Used' : Awaited(d)' \in air'
      BY <1>7, <1>8, <1>9 DEF Inv, WaitsForOwnPacket
    <2>2. \A d, f \in Used' : Awaited(d)' = Awaited(f)' => d = f
      BY <1>7, <1>8, <1>9 DEF Inv, WaitsForOwnPacket
    <2>3. alarms' = {Awaited(d)' : d \in Used'}
      BY <1>7, <1>8 DEF Inv, WaitsForOwnPacket
    <2> QED BY <2>1, <2>2, <2>3 DEF WaitsForOwnPacket
  <1>11. Recorded'
    <2>1. \A t \in Tickets : t > attempts' => told'[t].kind = "unmade" /\ answers'[t] = <<>>
      BY <1>1, <1>3 DEF Inv, Recorded, Tickets
    <2>2. \A p \in air' : p.ticket <= attempts'
      BY <1>1, <1>4, <1>9 DEF Tickets
    <2>3. \A p, q \in air' : p.ticket = q.ticket => p = q
      BY <1>4, <1>9 DEF Inv, Recorded
    <2>4. ASSUME NEW d \in Used'
          PROVE  LET q == g_IssuedCmds'[d]
                 IN  /\ told'[q.ticket] = [kind |-> "accepted", id |-> q.cmd_id]
                     /\ answers'[q.ticket] = <<>>
      <3>1. CASE d = e
        BY <1>1, <1>2, <1>3, <1>6, <3>1
      <3>2. CASE d # e
        <4>1. d \in Used /\ g_IssuedCmds'[d] = g_IssuedCmds[d]
          BY <1>6, <1>7, <3>2 DEF Used
        <4>2. /\ told[g_IssuedCmds[d].ticket] = [kind |-> "accepted", id |-> g_IssuedCmds[d].cmd_id]
              /\ answers[g_IssuedCmds[d].ticket] = <<>>
          BY <4>1 DEF Inv, Recorded
        <4> QED BY <1>1, <1>3, <1>5, <4>1, <4>2
      <3> QED BY <3>1, <3>2
    <2>5. ASSUME NEW t \in Tickets, told'[t].kind = "accepted", answers'[t] = <<>>
          PROVE  \E d \in Used' : g_IssuedCmds'[d].ticket = t
      <3>1. CASE t = Ticket
        BY <1>6, <1>7, <3>1
      <3>2. CASE t # Ticket
        <4>1. PICK d \in Used : g_IssuedCmds[d].ticket = t
          BY <1>1, <1>3, <2>5, <3>2, ZenonT(30) DEF Inv, Recorded
        <4> QED BY <1>6, <1>7, <4>1 DEF Used
      <3> QED BY <3>1, <3>2
    <2> QED BY <2>1, <2>2, <2>3, <2>4, <2>5 DEF Recorded
  <1>12. OwnAnswer'
    <2> SUFFICES ASSUME NEW t \in Tickets, NEW i \in DOMAIN answers[t]
                 PROVE  /\ told'[t].kind = "accepted"
                        /\ answers[t][i].id = told'[t].id
                        /\ answers[t][i].of \in {t, NoStatus}
      BY <1>1 DEF OwnAnswer
    <2>1. t # Ticket
      BY <1>2
    <2> QED BY <1>3, <2>1 DEF Inv, OwnAnswer
  <1>13. AnsweredAtMostOnce'
    BY <1>1, <1>2, <1>3 DEF Inv, AnsweredAtMostOnce
  <1> QED BY <1>10, <1>11, <1>12, <1>13

-----------------------------------------------------------------------------
(* The invariant *)

LEMMA InitInv == Init => Inv
  <1> SUFFICES ASSUME Init PROVE Inv
    OBVIOUS
  <1>1. Used = {}
    BY DEF Init, Used, NoIssuedCmd
  <1>2. OneOwner
    BY DEF Init, OneOwner, Distinct, Holding, NoBuffers
  <1>3. WaitsForOwnPacket
    BY <1>1 DEF Init, WaitsForOwnPacket
  <1>4. Room
    <2>1. g_PreAllocBufs \in Pools
      BY DEF Init, Pools, NoBuffers
    <2>2. Cardinality(Vacant(g_PreAllocBufs)) \in Nat
      BY <2>1, VacantFinite
    <2> QED BY <2>2, FS_EmptySet DEF Init, Room
  <1>5. Recorded
    BY <1>1 DEF Init, Recorded
  <1>6. OwnAnswer /\ AnsweredAtMostOnce
    BY DEF Init, OwnAnswer, AnsweredAtMostOnce
  <1>7. Unready
    BY DEF Init, Unready, Holding, NoBuffers
  <1> QED BY <1>2, <1>3, <1>4, <1>5, <1>6, <1>7 DEF Init, Inv, NoAssert

\* Nothing is said of the entries when none of their facts changes.
LEMMA EntriesUnchanged ==
    ASSUME Inv, UNCHANGED <<g_IssuedCmds, alarms, history>>, air' \in SUBSET air,
           \A e \in Used : Awaited(e) \in air'
    PROVE  WaitsForOwnPacket' /\ Recorded' /\ OwnAnswer' /\ AnsweredAtMostOnce'
  <1>1. Used' = Used /\ \A e \in Used : Awaited(e)' = Awaited(e)
    BY DEF Used, Awaited
  <1>2. WaitsForOwnPacket'
    BY <1>1 DEF Inv, WaitsForOwnPacket
  <1>3. Recorded'
    BY <1>1 DEF Inv, Recorded, history
  <1>4. OwnAnswer' /\ AnsweredAtMostOnce'
    BY DEF Inv, OwnAnswer, AnsweredAtMostOnce, history
  <1> QED BY <1>2, <1>3, <1>4

LEMMA NextInv == ~AlarmsMayFail /\ TypeOK /\ Inv /\ [Next]_vars => Inv'
  <1> SUFFICES ASSUME ~AlarmsMayFail, TypeOK, Inv, [Next]_vars PROVE Inv'
    OBVIOUS
  <1> USE DEF NoAssert
  <1>0. NoAssert /\ OneOwner /\ WaitsForOwnPacket /\ Unready /\ Room /\ Recorded
    BY DEF Inv
  <1>1. CASE EpInit
    <2>1. g_PreAllocBufs' \in Pools /\ Distinct(g_PreAllocBufs') /\ air = {}
      BY <1>0, <1>1 DEF EpInit, Initialises, Unready
    <2>2. ready' /\ UNCHANGED <<g_IssuedCmds, air, alarms, asserted, history>>
      BY <1>1 DEF EpInit
    <2>3. OneOwner' /\ Unready'
      BY <2>1, <2>2 DEF OneOwner, Unready
    <2>4. Room'
      <3>1. Cardinality(Vacant(g_PreAllocBufs')) \in Nat
        BY <2>1, VacantFinite
      <3> QED BY <2>1, <2>2, <3>1, FS_EmptySet DEF Room
    <2>5. WaitsForOwnPacket' /\ Recorded' /\ OwnAnswer' /\ AnsweredAtMostOnce'
      BY <1>0, <2>2, EntriesUnchanged DEF WaitsForOwnPacket
    <2> QED BY <1>0, <2>2, <2>3, <2>4, <2>5 DEF Inv
  <1>2. CASE SendWithoutBuffer
    <2>1. /\ Calling /\ Returns("refused")
          /\ UNCHANGED <<ready, g_PreAllocBufs, g_IssuedCmds, air, alarms, asserted>>
      BY <1>2 DEF SendWithoutBuffer, Returns
    <2>2. OneOwner' /\ WaitsForOwnPacket' /\ Unready' /\ Room' /\ Used' = Used
      BY <1>0, <2>1 DEF OneOwner, WaitsForOwnPacket, Unready, Room, Used, Awaited
    <2>3. Ticket \notin {p.ticket : p \in air}
      BY <1>0, SendAssumption DEF Recorded, Ticket, TypeOK
    <2>4. Recorded' /\ OwnAnswer' /\ AnsweredAtMostOnce'
      BY <2>1, <2>2, <2>3, NotAccepted
    <2> QED BY <1>0, <2>1, <2>2, <2>4 DEF Inv
  <1>3. CASE SendWithoutEntry
    <2>1. Holding(g_PreAllocBufs) # {}
      BY <1>3 DEF SendWithoutEntry, Allocates, IsFirst
    <2>2. Used = Slots
      BY <1>3 DEF SendWithoutEntry, FreeEntries, Used
    <2> QED BY <1>0, <2>1, <2>2, EntryForBuffer
  <1>4. CASE SendRejected
    <2>1. /\ Calling /\ Returns("refused")
          /\ UNCHANGED <<ready, g_IssuedCmds, air, alarms, asserted>>
      BY <1>4 DEF SendRejected, Returns
    <2>2. PICK b \in Bufs : GivesBack(g_PreAllocBufs, b, g_PreAllocBufs')
      BY <1>4 DEF SendRejected
    <2>3. OneOwner' /\ Room'
      BY <1>0, <2>1, <2>2, GivesBackOwner
    <2>4. WaitsForOwnPacket' /\ Used' = Used
      BY <1>0, <2>1 DEF WaitsForOwnPacket, Used, Awaited
    <2>5. Unready'
      BY <1>0, <2>1, <2>2 DEF Unready, GivesBack, IsFirst
    <2>6. Ticket \notin {p.ticket : p \in air}
      BY <1>0, SendAssumption DEF Recorded, Ticket, TypeOK
    <2>7. Recorded' /\ OwnAnswer' /\ AnsweredAtMostOnce'
      BY <2>1, <2>4, <2>6, NotAccepted
    <2> QED BY <1>0, <2>1, <2>3, <2>4, <2>5, <2>7 DEF Inv
  <1>5. CASE SendUntracked
    <2>1. /\ Calling /\ Returns("posted")
          /\ UNCHANGED <<ready, g_IssuedCmds, alarms, asserted>>
      BY <1>5 DEF SendUntracked, Returns
    <2>2. PICK b \in Bufs : Allocates(g_PreAllocBufs, b, g_PreAllocBufs') /\ InFlight(b)
      BY <1>5 DEF SendUntracked
    <2>3. OneOwner' /\ Room'
      BY <1>0, <2>1, <2>2, AllocateOwner
    <2>4. Used' = Used /\ \A e \in Used : Awaited(e)' = Awaited(e)
      BY <2>1 DEF Used, Awaited
    <2>5. WaitsForOwnPacket'
      BY <1>0, <2>1, <2>2, <2>4 DEF WaitsForOwnPacket, InFlight
    <2>6. Unready'
      BY <1>0, <2>1, <2>2 DEF Unready, Allocates, IsFirst
    <2>7. Ticket \notin {p.ticket : p \in air}
      BY <1>0, SendAssumption DEF Recorded, Ticket, TypeOK
    <2>8. Recorded' /\ OwnAnswer' /\ AnsweredAtMostOnce'
      BY <2>1, <2>2, <2>4, <2>7, NotAccepted DEF InFlight
    <2> QED BY <1>0, <2>1, <2>3, <2>5, <2>6, <2>8 DEF Inv
  <1>6. CASE SendTracked
    <2>1. /\ Calling /\ Returns("accepted")
          /\ UNCHANGED <<ready, asserted>>
      BY <1>6 DEF SendTracked, Returns
    <2>2. PICK b \in Bufs, e \in Slots :
              /\ Allocates(g_PreAllocBufs, b, g_PreAllocBufs') /\ InFlight(b)
              /\ e \in FreeEntries /\ Fill(e, b)
              /\ alarms' = alarms \cup {[buf |-> b, ticket |-> Ticket]}
      BY <1>6 DEF SendTracked, IsFirst
    <2>3. OneOwner' /\ Room'
      BY <1>0, <2>1, <2>2, AllocateOwner
    <2>4. \A p \in air : p.buf # b
      BY <1>0, <2>2 DEF OneOwner, Allocates
    <2>5. WaitsForOwnPacket' /\ Recorded' /\ OwnAnswer' /\ AnsweredAtMostOnce'
      BY <2>1, <2>2, <2>4, AcceptLemma
    <2>6. Unready'
      BY <1>0, <2>1, <2>2 DEF Unready, Allocates, IsFirst
    <2> QED BY <1>0, <2>1, <2>3, <2>5, <2>6 DEF Inv
  <1>7. CASE SendWithoutAlarm
    BY <1>7 DEF SendWithoutAlarm
  <1>8. ASSUME NEW a \in Packets, OnSendCmdTimeout(a) PROVE Inv'
    <2>1. PICK d \in Used : a = Awaited(d)
      BY <1>0, <1>8 DEF OnSendCmdTimeout, WaitsForOwnPacket
    <2>2. a \in air /\ d \in EntriesOf(a.buf)
      BY <1>0, <2>1 DEF WaitsForOwnPacket, EntriesOf, Used, Awaited
    <2>3. PICK e \in Slots : e \in EntriesOf(a.buf) /\ Free(e) /\ CallBack(e, NoStatus, NoBuf)
      BY <1>8, <2>2 DEF OnSendCmdTimeout, IsFirst
    <2>4. /\ UNCHANGED <<ready, g_PreAllocBufs, air, asserted>>
          /\ alarms' = alarms \ {a}
      BY <1>8, <2>2 DEF OnSendCmdTimeout
    <2>5. e \in Used /\ Awaited(e) = a
      BY <1>0, <2>2, <2>3, MatchLemma
    <2>6. WaitsForOwnPacket' /\ Recorded' /\ OwnAnswer' /\ AnsweredAtMostOnce'
      BY <2>2, <2>3, <2>4, <2>5, AnswerLemma
    <2>7. OneOwner' /\ Unready' /\ Room'
      BY <1>0, <2>4 DEF OneOwner, Unready, Room
    <2> QED BY <1>0, <2>4, <2>6, <2>7 DEF Inv
  <1>9. ASSUME NEW p \in Packets, OnSendCmdCb(p) PROVE Inv'
    <2>1. PICK e \in Slots : e \in EntriesOf(p.buf) /\ Free(e) /\ CallBack(e, p.ticket, p.buf)
      BY <1>9 DEF OnSendCmdCb, IsFirst
    <2>2. /\ p \in air /\ air' = air \ {p} /\ Cancel(p.buf)
          /\ Deallocates(g_PreAllocBufs, p.buf, g_PreAllocBufs')
          /\ UNCHANGED <<ready, asserted>>
      BY <1>9 DEF OnSendCmdCb
    <2>3. e \in Used /\ Awaited(e) = p /\ alarms' = alarms \ {p}
      BY <1>0, <2>1, <2>2, MatchLemma
    <2>4. p.buf \in Bufs
      BY DEF Packets
    <2>5. WaitsForOwnPacket' /\ Recorded' /\ OwnAnswer' /\ AnsweredAtMostOnce'
      BY <2>1, <2>2, <2>3, <2>4, AnswerLemma
    <2>6. OneOwner' /\ Room'
      BY <1>0, <2>2, DeallocateOwner
    <2>7. Unready'
      BY <1>0, <2>2 DEF Unready
    <2> QED BY <1>0, <2>2, <2>5, <2>6, <2>7 DEF Inv
  <1>10. ASSUME NEW p \in Packets, OnSendCmdCbUnmatched(p) PROVE Inv'
    <2>1. /\ p \in air /\ air' = air \ {p} /\ EntriesOf(p.buf) = {}
          /\ Deallocates(g_PreAllocBufs, p.buf, g_PreAllocBufs')
          /\ UNCHANGED <<ready, g_IssuedCmds, alarms, asserted, history>>
      BY <1>10 DEF OnSendCmdCbUnmatched
    <2>2. OneOwner' /\ Room'
      BY <1>0, <2>1, DeallocateOwner
    <2>3. \A e \in Used : Awaited(e) \in air'
      BY <1>0, <2>1 DEF WaitsForOwnPacket, EntriesOf, Used, Awaited
    <2>4. WaitsForOwnPacket' /\ Recorded' /\ OwnAnswer' /\ AnsweredAtMostOnce'
      BY <2>1, <2>3, EntriesUnchanged
    <2>5. Unready'
      BY <1>0, <2>1 DEF Unready
    <2> QED BY <1>0, <2>1, <2>2, <2>4, <2>5 DEF Inv
  <1>11. ASSUME NEW p \in Packets, OnSendCmdCbPoolFull(p) PROVE Inv'
    BY <1>0, <1>11, SlotForPacket DEF OnSendCmdCbPoolFull
  <1>12. ASSUME CallBackReturns \/ UNCHANGED vars PROVE Inv'
    <2>1. UNCHANGED <<ready, g_PreAllocBufs, g_IssuedCmds, air, alarms, asserted, history>>
      BY <1>12 DEF CallBackReturns, vars, code
    <2>2. OneOwner' /\ Unready' /\ Room'
      BY <1>0, <2>1 DEF OneOwner, Unready, Room
    <2>3. WaitsForOwnPacket' /\ Recorded' /\ OwnAnswer' /\ AnsweredAtMostOnce'
      BY <1>0, <2>1, EntriesUnchanged DEF WaitsForOwnPacket
    <2> QED BY <1>0, <2>1, <2>2, <2>3 DEF Inv
  <1> QED
    BY <1>1, <1>2, <1>3, <1>4, <1>5, <1>6, <1>7, <1>8, <1>9, <1>10, <1>11, <1>12
    DEF Next, Send

LEMMA InvCorrect ==
    ASSUME ~AlarmsMayFail
    PROVE  Spec => []Inv
  <1>1. Inv /\ [Next]_vars /\ TypeOK => Inv'
    BY NextInv
  <1> QED BY <1>1, InitInv, TypeCorrect, PTL DEF Spec

\* While alarms can be scheduled no ZB_ASSERT of the send path fails.
THEOREM AssertsHold ==
    ASSUME ~AlarmsMayFail
    PROVE  Spec => []NoAssert
  <1>1. Inv => NoAssert
    BY DEF Inv
  <1> QED BY <1>1, InvCorrect, PTL

\* ... every buffer has one owner,
THEOREM BuffersOwned ==
    ASSUME ~AlarmsMayFail
    PROVE  Spec => []OneOwner
  <1>1. Inv => OneOwner
    BY DEF Inv
  <1> QED BY <1>1, InvCorrect, PTL

\* ... a waiting command waits for its own packet, with one timeout,
THEOREM EntriesWait ==
    ASSUME ~AlarmsMayFail
    PROVE  Spec => []WaitsForOwnPacket
  <1>1. Inv => WaitsForOwnPacket
    BY DEF Inv
  <1> QED BY <1>1, InvCorrect, PTL

\* ... and a callback gets the id and the status of its own command.
THEOREM AnswersMatch ==
    ASSUME ~AlarmsMayFail
    PROVE  Spec => []OwnAnswer
  <1>1. Inv => OwnAnswer
    BY DEF Inv
  <1> QED BY <1>1, InvCorrect, PTL


-----------------------------------------------------------------------------
(* What holds even when alarms cannot be scheduled: no call gets a second    *)
(* answer.  It needs less than Inv, which fails then: an entry stands for an *)
(* accepted call that nobody has answered.                                   *)

Pending ==
    /\ \A t \in Tickets : t > attempts => told[t].kind = "unmade" /\ answers[t] = <<>>
    /\ \A e \in Used : /\ told[g_IssuedCmds[e].ticket].kind = "accepted"
                       /\ answers[g_IssuedCmds[e].ticket] = <<>>
    /\ \A e, f \in Used : g_IssuedCmds[e].ticket = g_IssuedCmds[f].ticket => e = f
    /\ AnsweredAtMostOnce

LEMMA UsedTicket ==
    ASSUME TypeOK, NEW e \in Used
    PROVE  e \in Slots /\ g_IssuedCmds[e].ticket \in Tickets /\ g_IssuedCmds[e] \in IssuedCmd
  <1>1. e \in Slots /\ g_IssuedCmds[e] \in IssuedCmd /\ g_IssuedCmds[e].buf # NoBuf
    BY DEF Used, TypeOK
  <1> QED BY <1>1 DEF IssuedCmd

\* A step that leaves the entries in use and the history alone.
LEMMA PendingFrame ==
    ASSUME Pending, UNCHANGED history, Used' = Used,
           \A e \in Used : g_IssuedCmds'[e] = g_IssuedCmds[e]
    PROVE  Pending'
  BY DEF Pending, AnsweredAtMostOnce, history

\* A call that returns, with an entry for it or without.
LEMMA PendingCall ==
    ASSUME TypeOK, Pending, Calling, NEW kind \in {"refused", "posted", "accepted"}, Returns(kind),
           \/ Used' = Used /\ \A e \in Used : g_IssuedCmds'[e] = g_IssuedCmds[e]
           \/ /\ kind = "accepted"
              /\ \E e \in Slots \ Used :
                    /\ Used' = Used \cup {e}
                    /\ g_IssuedCmds'[e].ticket = Ticket
                    /\ \A f \in Used : g_IssuedCmds'[f] = g_IssuedCmds[f]
    PROVE  Pending'
  <1>1. /\ Ticket \in Tickets /\ attempts' = Ticket /\ answers' = answers
        /\ told' = [told EXCEPT ![Ticket] = [kind |-> kind, id |-> g_cmd_num]]
        /\ attempts \in 0..MaxSends
    BY ReturnsTypeOK DEF Returns, TypeOK
  <1>2. Ticket > attempts /\ \A t \in Tickets : t > Ticket => t > attempts /\ t # Ticket
    BY <1>1, SendAssumption DEF Ticket, Tickets
  <1>3. answers[Ticket] = <<>> /\ told[Ticket].kind = "unmade"
    BY <1>1, <1>2 DEF Pending
  <1>4. \A t \in Tickets : told'[t] = IF t = Ticket THEN [kind |-> kind, id |-> g_cmd_num] ELSE told[t]
    BY <1>1 DEF TypeOK
  <1>5. \A e \in Used : g_IssuedCmds[e].ticket \in Tickets /\ g_IssuedCmds[e].ticket # Ticket
    BY <1>3, UsedTicket DEF Pending
  <1>6. \A t \in Tickets : t > attempts' => told'[t].kind = "unmade" /\ answers'[t] = <<>>
    BY <1>1, <1>2, <1>4 DEF Pending
  <1>7. AnsweredAtMostOnce'
    <2> SUFFICES ASSUME NEW t \in Tickets
                 PROVE  Len(answers[t]) <= IF told'[t].kind = "accepted" THEN 1 ELSE 0
      BY <1>1 DEF AnsweredAtMostOnce
    <2>1. CASE t = Ticket
      BY <1>3, <2>1
    <2>2. CASE t # Ticket
      BY <1>4, <2>2 DEF Pending, AnsweredAtMostOnce
    <2> QED BY <2>1, <2>2
  <1>8. CASE Used' = Used /\ \A e \in Used : g_IssuedCmds'[e] = g_IssuedCmds[e]
    BY <1>1, <1>4, <1>5, <1>6, <1>7, <1>8 DEF Pending
  <1>9. ASSUME kind = "accepted", NEW e \in Slots \ Used, Used' = Used \cup {e},
               g_IssuedCmds'[e].ticket = Ticket,
               \A f \in Used : g_IssuedCmds'[f] = g_IssuedCmds[f]
        PROVE  Pending'
    <2>1. \A f \in Used' : /\ told'[g_IssuedCmds'[f].ticket].kind = "accepted"
                           /\ answers'[g_IssuedCmds'[f].ticket] = <<>>
      BY <1>1, <1>3, <1>4, <1>5, <1>9 DEF Pending
    <2>2. \A f, g \in Used' : g_IssuedCmds'[f].ticket = g_IssuedCmds'[g].ticket => f = g
      BY <1>5, <1>9 DEF Pending
    <2> QED BY <1>6, <1>7, <2>1, <2>2 DEF Pending
  <1> QED BY <1>8, <1>9

\* A callback answers the call of its entry, which it frees.
LEMMA PendingAnswer ==
    ASSUME TypeOK, Pending, NEW e \in Used, NEW of \in Tickets \cup {NoStatus},
           NEW b \in Bufs \cup {NoBuf}, Free(e), CallBack(e, of, b)
    PROVE  Pending'
  <1> DEFINE t == g_IssuedCmds[e].ticket
  <1>1. e \in Slots /\ t \in Tickets
    BY UsedTicket
  <1>2. told[t].kind = "accepted" /\ answers[t] = <<>>
    BY DEF Pending
  <1>3. Used' = Used \ {e} /\ \A f \in Used' : g_IssuedCmds'[f] = g_IssuedCmds[f]
    BY <1>1 DEF Free, Used, TypeOK
  <1>4. UNCHANGED <<attempts, told>>
    BY DEF CallBack
  <1>5. PICK call : answers' = [answers EXCEPT ![t] = Append(answers[t], call)] /\ call \in Calls
    <2>1. [id |-> g_IssuedCmds[e].cmd_id, of |-> of] \in Calls
      BY UsedTicket DEF IssuedCmd, Calls
    <2>2. answers' = [answers EXCEPT ![t] = Append(answers[t], [id |-> g_IssuedCmds[e].cmd_id, of |-> of])]
      BY DEF CallBack
    <2> QED BY <2>1, <2>2
  <1>6. \A u \in Tickets : answers'[u] = IF u = t THEN Append(<<>>, call) ELSE answers[u]
    BY <1>1, <1>2, <1>5 DEF TypeOK
  <1>7. \A f \in Used' : g_IssuedCmds[f].ticket # t /\ g_IssuedCmds[f].ticket \in Tickets
    BY <1>3, UsedTicket DEF Pending
  <1>8. AnsweredAtMostOnce'
    <2> SUFFICES ASSUME NEW u \in Tickets
                 PROVE  Len(answers'[u]) <= IF told[u].kind = "accepted" THEN 1 ELSE 0
      BY <1>4 DEF AnsweredAtMostOnce
    <2>1. CASE u = t
      <3>1. Len(answers'[u]) = 1
        BY <1>1, <1>6, <2>1
      <3> QED BY <1>2, <2>1, <3>1
    <2>2. CASE u # t
      BY <1>6, <2>2 DEF Pending, AnsweredAtMostOnce
    <2> QED BY <2>1, <2>2
  <1>9. \A u \in Tickets : u > attempts' => told'[u].kind = "unmade" /\ answers'[u] = <<>>
    BY <1>1, <1>2, <1>4, <1>6 DEF Pending
  <1>10. \A f \in Used' : /\ told'[g_IssuedCmds'[f].ticket].kind = "accepted"
                          /\ answers'[g_IssuedCmds'[f].ticket] = <<>>
    BY <1>3, <1>4, <1>6, <1>7 DEF Pending
  <1>11. \A f, g \in Used' : g_IssuedCmds'[f].ticket = g_IssuedCmds'[g].ticket => f = g
    BY <1>3 DEF Pending
  <1> QED BY <1>8, <1>9, <1>10, <1>11 DEF Pending

LEMMA NextPending == TypeOK /\ Pending /\ [Next]_vars => Pending'
  <1> SUFFICES ASSUME TypeOK, Pending, [Next]_vars PROVE Pending'
    OBVIOUS
  <1>0. ASSUME UNCHANGED g_IssuedCmds
        PROVE  Used' = Used /\ \A e \in Used : g_IssuedCmds'[e] = g_IssuedCmds[e]
    BY <1>0 DEF Used
  <1>1. CASE EpInit \/ SendWithoutEntry \/ CallBackReturns \/ UNCHANGED vars
    <2>1. UNCHANGED <<g_IssuedCmds, history>>
      BY <1>1 DEF EpInit, SendWithoutEntry, CallBackReturns, vars, code
    <2> QED BY <1>0, <2>1, PendingFrame
  <1>2. CASE SendWithoutBuffer \/ SendRejected
    <2>1. Calling /\ Returns("refused") /\ UNCHANGED g_IssuedCmds
      BY <1>2 DEF SendWithoutBuffer, SendRejected
    <2> QED BY <1>0, <2>1, PendingCall
  <1>3. CASE SendUntracked
    <2>1. Calling /\ Returns("posted") /\ UNCHANGED g_IssuedCmds
      BY <1>3 DEF SendUntracked
    <2> QED BY <1>0, <2>1, PendingCall
  <1>4. CASE SendTracked
    <2>1. Calling /\ Returns("accepted")
      BY <1>4 DEF SendTracked
    <2>2. PICK b \in Bufs, e \in Slots : e \in FreeEntries /\ Fill(e, b)
      BY <1>4 DEF SendTracked, IsFirst
    <2>3. b # NoBuf
      BY PoolAssumption
    <2>4. e \in Slots \ Used
      BY <2>2 DEF FreeEntries
    <2>5. \A f \in Slots : g_IssuedCmds'[f] =
              IF f = e THEN [buf |-> b, cmd_id |-> g_cmd_num, ticket |-> Ticket] ELSE g_IssuedCmds[f]
      BY <2>2 DEF Fill, TypeOK
    <2>6. Used' = Used \cup {e}
      BY <2>3, <2>4, <2>5 DEF Used
    <2>7. g_IssuedCmds'[e].ticket = Ticket /\ \A f \in Used : g_IssuedCmds'[f] = g_IssuedCmds[f]
      BY <2>4, <2>5 DEF Used
    <2> QED BY <2>1, <2>4, <2>6, <2>7, PendingCall
  <1>5. CASE SendWithoutAlarm
    <2>1. Calling /\ Returns("refused")
      BY <1>5 DEF SendWithoutAlarm
    <2>2. PICK e \in Slots : e \in FreeEntries /\ Fill(e, NoBuf)
      BY <1>5 DEF SendWithoutAlarm, IsFirst
    <2>3. \A f \in Slots : g_IssuedCmds'[f] =
              IF f = e THEN [buf |-> NoBuf, cmd_id |-> g_cmd_num, ticket |-> Ticket] ELSE g_IssuedCmds[f]
      BY <2>2 DEF Fill, TypeOK
    <2>4. Used' = Used /\ \A f \in Used : g_IssuedCmds'[f] = g_IssuedCmds[f]
      BY <2>2, <2>3 DEF Used, FreeEntries
    <2> QED BY <2>1, <2>4, PendingCall
  <1>6. ASSUME NEW p \in Packets, OnSendCmdTimeout(p) PROVE Pending'
    <2>1. CASE EntriesOf(p.buf) = {}
      <3>1. UNCHANGED <<g_IssuedCmds, history>>
        BY <1>6, <2>1 DEF OnSendCmdTimeout
      <3> QED BY <1>0, <3>1, PendingFrame
    <2>2. CASE EntriesOf(p.buf) # {}
      <3>1. PICK e \in EntriesOf(p.buf) : Free(e) /\ CallBack(e, NoStatus, NoBuf)
        BY <1>6, <2>2 DEF OnSendCmdTimeout, IsFirst
      <3>2. e \in Used
        BY <3>1, PoolAssumption DEF EntriesOf, Used, Packets
      <3> QED BY <3>1, <3>2, PendingAnswer
    <2> QED BY <2>1, <2>2
  <1>7. ASSUME NEW p \in Packets, OnSendCmdCb(p) PROVE Pending'
    <2>1. PICK e \in EntriesOf(p.buf) : Free(e) /\ CallBack(e, p.ticket, p.buf)
      BY <1>7 DEF OnSendCmdCb, IsFirst
    <2>2. e \in Used
      BY <2>1, PoolAssumption DEF EntriesOf, Used, Packets
    <2> QED BY <2>1, <2>2, PendingAnswer DEF Packets
  <1>8. ASSUME NEW p \in Packets, OnSendCmdCbUnmatched(p) \/ OnSendCmdCbPoolFull(p) PROVE Pending'
    <2>1. UNCHANGED <<g_IssuedCmds, history>>
      BY <1>8 DEF OnSendCmdCbUnmatched, OnSendCmdCbPoolFull
    <2> QED BY <1>0, <2>1, PendingFrame
  <1> QED BY <1>1, <1>2, <1>3, <1>4, <1>5, <1>6, <1>7, <1>8 DEF Next, Send

\* At most one answer to an accepted call and none to a refused one, also when
\* the alarm queue is full.
THEOREM AnsweredOnce == Spec => []AnsweredAtMostOnce
  <1>1. Init => Pending
    <2> SUFFICES ASSUME Init PROVE Pending
      OBVIOUS
    <2>1. Used = {}
      BY DEF Init, Used, NoIssuedCmd
    <2>2. \A t \in Tickets : told[t].kind = "unmade" /\ answers[t] = <<>>
      BY DEF Init
    <2> QED BY <2>1, <2>2 DEF Pending, AnsweredAtMostOnce
  <1>2. Pending => AnsweredAtMostOnce
    BY DEF Pending
  <1> QED BY <1>1, <1>2, NextPending, TypeCorrect, PTL DEF Spec

-----------------------------------------------------------------------------
(* No buffer is lost *)

LEMMA OwnedMembers ==
    ASSUME NEW b
    PROVE  /\ b \in Owned <=> \/ \E s \in Slots : g_PreAllocBufs[s] = b /\ b # NoBuf
                              \/ \E p \in air : p.buf = b
           /\ b \in Owned' <=> \/ \E s \in Slots : g_PreAllocBufs'[s] = b /\ b # NoBuf
                               \/ \E p \in air' : p.buf = b
  BY DEF Owned, Holding

LEMMA StepConserves ==
    ASSUME ~AlarmsMayFail, TypeOK, Inv, Next, ready
    PROVE  Owned' = Owned
  <1>0. g_PreAllocBufs \in Pools
    BY DEF TypeOK
  <1>1. CASE EpInit
    BY <1>1 DEF EpInit
  <1>2. CASE SendWithoutBuffer \/ CallBackReturns
    BY <1>2 DEF SendWithoutBuffer, CallBackReturns, Owned
  <1>3. CASE SendWithoutEntry
    <2>1. Holding(g_PreAllocBufs) # {} /\ Used = Slots
      BY <1>3 DEF SendWithoutEntry, Allocates, IsFirst, FreeEntries, Used
    <2> QED BY <2>1, EntryForBuffer DEF Inv
  <1>4. CASE SendRejected
    <2>1. PICK b \in Bufs : GivesBack(g_PreAllocBufs, b, g_PreAllocBufs')
      BY <1>4 DEF SendRejected
    <2>2. /\ \A u \in Holding(g_PreAllocBufs') : \E s \in Holding(g_PreAllocBufs) :
                 g_PreAllocBufs'[u] = g_PreAllocBufs[s]
          /\ \A s \in Holding(g_PreAllocBufs) : \E u \in Holding(g_PreAllocBufs') :
                 g_PreAllocBufs'[u] = g_PreAllocBufs[s]
      BY <1>0, <2>1, GivesBackLemma
    <2>3. air' = air
      BY <1>4 DEF SendRejected
    <2> QED BY <2>2, <2>3 DEF Owned
  <1>5. ASSUME NEW b \in Bufs, Allocates(g_PreAllocBufs, b, g_PreAllocBufs'), InFlight(b)
        PROVE  Owned' = Owned
    <2>1. PICK s \in Holding(g_PreAllocBufs) :
              /\ b = g_PreAllocBufs[s]
              /\ \A u \in Slots : g_PreAllocBufs'[u] = IF u = s THEN NoBuf ELSE g_PreAllocBufs[u]
      BY <1>0, <1>5, AllocateLemma
    <2>2. s \in Slots /\ b # NoBuf
      BY <2>1, PoolAssumption DEF Holding
    <2>3. \A c : (\E p \in air' : p.buf = c) <=> c = b \/ \E p \in air : p.buf = c
      <3> DEFINE np == [buf |-> b, ticket |-> Ticket]
      <3>1. np.buf = b /\ air' = air \cup {np}
        BY <1>5 DEF InFlight
      <3> HIDE DEF np
      <3> QED BY <3>1
    <2>4. \A c : c \in Owned' <=> c \in Owned
      BY <2>1, <2>2, <2>3, OwnedMembers
    <2> QED BY <2>4
  <1>6. CASE SendUntracked \/ SendTracked
    BY <1>5, <1>6 DEF SendUntracked, SendTracked
  <1>7. CASE SendWithoutAlarm
    BY <1>7 DEF SendWithoutAlarm
  <1>8. ASSUME NEW p \in Packets, OnSendCmdTimeout(p) PROVE Owned' = Owned
    BY <1>8 DEF OnSendCmdTimeout, Owned
  <1>9. ASSUME NEW p \in Packets, OnSendCmdCb(p) \/ OnSendCmdCbUnmatched(p) PROVE Owned' = Owned
    <2>1. /\ p \in air /\ air' = air \ {p} /\ Deallocates(g_PreAllocBufs, p.buf, g_PreAllocBufs')
      BY <1>9 DEF OnSendCmdCb, OnSendCmdCbUnmatched
    <2>2. p.buf \in Bufs /\ p.buf # NoBuf
      BY PoolAssumption DEF Packets
    <2>3. PICK s \in Vacant(g_PreAllocBufs) :
              \A u \in Slots : g_PreAllocBufs'[u] = IF u = s THEN p.buf ELSE g_PreAllocBufs[u]
      BY <1>0, <2>1, <2>2, DeallocateLemma
    <2>4. s \in Slots /\ g_PreAllocBufs[s] = NoBuf
      BY <2>3 DEF Vacant
    <2>5. \A c : c \in Owned' <=> c \in Owned
      BY <2>1, <2>2, <2>3, <2>4, OwnedMembers
    <2> QED BY <2>5
  <1>10. ASSUME NEW p \in Packets, OnSendCmdCbPoolFull(p) PROVE Owned' = Owned
    BY <1>10, SlotForPacket DEF OnSendCmdCbPoolFull, Inv
  <1> QED BY <1>1, <1>2, <1>3, <1>4, <1>6, <1>7, <1>8, <1>9, <1>10 DEF Next, Send

\* Once initialised, the endpoint loses no buffer and makes none up, while
\* alarms can be scheduled.
THEOREM BuffersAreConserved ==
    ASSUME ~AlarmsMayFail
    PROVE  Spec => BuffersConserved
  <1>1. TypeOK /\ Inv /\ [Next]_vars => [ready => Owned' = Owned]_vars
    BY StepConserves
  <1> QED BY <1>1, InvCorrect, TypeCorrect, PTL DEF Spec, BuffersConserved

-----------------------------------------------------------------------------
(* The endpoint implements CmdService *)

request == [t \in Tickets |-> Abstract(t)]

\* The outcomes that occur.
LEMMA OutcomeLemma ==
    ASSUME NEW t \in Tickets, NEW kind \in {"unmade", "refused", "posted", "accepted"}
    PROVE  /\ Outcome(t, kind, <<>>) = IF kind = "accepted" THEN "waiting" ELSE kind
           /\ \A calls : Outcome(t, kind, calls) = "waiting" => kind = "accepted" /\ calls = <<>>
           /\ \A call \in Calls : call.of \in {t, NoStatus}
                 => Outcome(t, "accepted", <<call>>)
                        = IF call.of = NoStatus THEN "timed out" ELSE "answered"
  <1>1. t # NoStatus
    BY DEF Tickets, NoStatus
  <1>2. \A call : Len(<<call>>) = 1 /\ <<call>> # <<>> /\ <<call>>[1] = call
    OBVIOUS
  <1> QED BY <1>1, <1>2 DEF Outcome

\* Requests that are the tickets of different slots fit in the queue.
LEMMA TicketsFit ==
    ASSUME NEW S, NEW ticket, \A t \in S : \E e \in Slots : ticket[e] = t
    PROVE  Service!Fits(S)
  <1> DEFINE place == [t \in S |-> CHOOSE e \in Slots : ticket[e] = t]
  <1>1. place \in [S -> 1..Depth] /\ \A t \in S : ticket[place[t]] = t
    BY DEF Slots
  <1> HIDE DEF place
  <1> QED BY <1>1 DEF Service!Fits

\* A call of send_cmd is one step of the abstract request it stands for.
LEMMA CallRefines ==
    ASSUME TypeOK, Inv, Calling, NEW kind \in {"refused", "posted", "accepted"}, Returns(kind),
           NEW r, r = Ticket
    PROVE  /\ r \in Tickets
           /\ request[r] = "unmade"
           /\ request' = [request EXCEPT ![r] = IF kind = "accepted" THEN "waiting" ELSE kind]
  <1>1. r \in Tickets
    BY ReturnsTypeOK
  <1>2. attempts \in Nat /\ r = attempts + 1
    BY SendAssumption DEF TypeOK, Ticket
  <1>3. told[r].kind = "unmade" /\ answers[r] = <<>>
    BY <1>1, <1>2 DEF Inv, Recorded
  <1>4. told'[r].kind = kind /\ \A t \in Tickets : t # r => told'[t] = told[t]
    BY <1>1 DEF Returns, TypeOK
  <1>5. answers' = answers
    BY DEF Returns
  <1>6. Abstract(r) = "unmade"
    BY <1>1, <1>3, OutcomeLemma DEF Abstract
  <1>7. Abstract(r)' = IF kind = "accepted" THEN "waiting" ELSE kind
    BY <1>1, <1>3, <1>4, <1>5, OutcomeLemma DEF Abstract
  <1>8. \A t \in Tickets : t # r => Abstract(t)' = Abstract(t)
    BY <1>4, <1>5 DEF Abstract
  <1> QED BY <1>1, <1>6, <1>7, <1>8 DEF request

\* A callback is one step of the abstract request of the entry.
LEMMA CallBackRefines ==
    ASSUME TypeOK, Inv, NEW e \in Used, NEW b \in Bufs \cup {NoBuf},
           NEW r, r = g_IssuedCmds[e].ticket,
           NEW of \in {r, NoStatus}, CallBack(e, of, b)
    PROVE  /\ r \in Tickets
           /\ request[r] = "waiting"
           /\ request' = [request EXCEPT ![r] = IF of = NoStatus THEN "timed out" ELSE "answered"]
  <1>1. r \in Tickets /\ g_IssuedCmds[e].cmd_id \in CmdIds
    BY DEF TypeOK, Used, IssuedCmd
  <1>2. told[r].kind = "accepted" /\ answers[r] = <<>>
    <2>1. told[g_IssuedCmds[e].ticket] = [kind |-> "accepted", id |-> g_IssuedCmds[e].cmd_id]
      BY DEF Inv, Recorded
    <2>2. answers[g_IssuedCmds[e].ticket] = <<>>
      BY DEF Inv, Recorded
    <2> QED BY <2>1, <2>2
  <1>3. PICK call \in Calls : call = [id |-> g_IssuedCmds[e].cmd_id, of |-> of]
    BY <1>1 DEF Calls
  <1>4. told' = told /\ answers' = [answers EXCEPT ![r] = Append(<<>>, call)]
    BY <1>2, <1>3 DEF CallBack
  <1>5. answers'[r] = <<call>> /\ \A t \in Tickets : t # r => answers'[t] = answers[t]
    BY <1>1, <1>4 DEF TypeOK
  <1>6. Abstract(r) = "waiting"
    BY <1>1, <1>2, OutcomeLemma DEF Abstract
  <1>7. Abstract(r)' = IF of = NoStatus THEN "timed out" ELSE "answered"
    <2>1. Outcome(r, "accepted", <<call>>) = IF of = NoStatus THEN "timed out" ELSE "answered"
      BY <1>1, <1>3, OutcomeLemma
    <2> QED BY <1>2, <1>4, <1>5, <2>1 DEF Abstract
  <1>8. \A t \in Tickets : t # r => Abstract(t)' = Abstract(t)
    BY <1>4, <1>5 DEF Abstract
  <1> QED BY <1>1, <1>6, <1>7, <1>8 DEF request

LEMMA StepRefines ==
    ASSUME ~AlarmsMayFail, TypeOK, Inv, [Next]_vars
    PROVE  [Service!Next]_request
  <1> USE DEF Service!Next, Service!Becomes, request
  <1>1. CASE UNCHANGED history
    BY <1>1 DEF history, Abstract
  <1>2. ASSUME Calling, Returns("refused") PROVE [Service!Next]_request
    <2>1. Ticket \in Tickets /\ Service!Refuse(Ticket)
      BY <1>2, CallRefines DEF Service!Refuse
    <2> QED BY <2>1
  <1>3. CASE SendUntracked
    <2>1. Calling /\ Returns("posted")
      BY <1>3 DEF SendUntracked
    <2>2. Ticket \in Tickets /\ Service!Post(Ticket)
      BY <2>1, CallRefines DEF Service!Post
    <2> QED BY <2>2
  <1>4. CASE SendTracked
    <2>1. Calling /\ Returns("accepted")
      BY <1>4 DEF SendTracked
    <2>2. PICK r \in Tickets : r = Ticket
      BY <2>1, ReturnsTypeOK
    <2>3. Recorded'
      BY NextInv DEF Inv
    <2>4. Service!Waiting' = Service!Waiting \cup {r}
      BY <2>1, <2>2, CallRefines DEF Service!Waiting
    <2>5. Service!Fits(Service!Waiting \cup {r})
      <3>1. \A t \in Service!Waiting' : told'[t].kind = "accepted" /\ answers'[t] = <<>>
        BY NextTypeOK, OutcomeLemma DEF Service!Waiting, Abstract, TypeOK, Returned
      <3>2. PICK ticket : ticket = [e \in Slots |-> g_IssuedCmds'[e].ticket]
        OBVIOUS
      <3>3. \A t \in Service!Waiting' : \E e \in Slots : ticket[e] = t
        BY <2>3, <3>1, <3>2 DEF Recorded, Used, Service!Waiting
      <3> QED BY <2>4, <3>3, TicketsFit
    <2>6. Service!Accept(r)
      BY <2>1, <2>2, <2>5, CallRefines DEF Service!Accept
    <2> QED BY <2>6
  <1>5. ASSUME NEW a \in Packets, OnSendCmdTimeout(a), EntriesOf(a.buf) # {}
        PROVE  [Service!Next]_request
    <2>1. PICK e \in Slots : e \in EntriesOf(a.buf) /\ Free(e) /\ CallBack(e, NoStatus, NoBuf)
      BY <1>5 DEF OnSendCmdTimeout, IsFirst
    <2>2. e \in Used
      BY <2>1, PoolAssumption DEF EntriesOf, Used, Packets
    <2>3. g_IssuedCmds[e].ticket \in Tickets /\ Service!Answer(g_IssuedCmds[e].ticket)
      BY <2>1, <2>2, CallBackRefines, ZenonT(30) DEF Service!Answer
    <2> QED BY <2>3
  <1>6. ASSUME NEW p \in Packets, OnSendCmdCb(p) PROVE [Service!Next]_request
    <2>1. PICK e \in Slots : e \in EntriesOf(p.buf) /\ Free(e) /\ CallBack(e, p.ticket, p.buf)
      BY <1>6 DEF OnSendCmdCb, IsFirst
    <2>2. e \in Used /\ Awaited(e) = p
      BY <1>6, <2>1, MatchLemma DEF Inv, OnSendCmdCb
    <2>3. p.ticket = g_IssuedCmds[e].ticket /\ p.ticket # NoStatus /\ p.buf \in Bufs
      BY <2>2 DEF Awaited, Packets, Tickets, NoStatus
    <2>4. g_IssuedCmds[e].ticket \in Tickets /\ Service!Answer(g_IssuedCmds[e].ticket)
      BY <2>1, <2>2, <2>3, CallBackRefines, ZenonT(30) DEF Service!Answer
    <2> QED BY <2>4
  <1>7. CASE EpInit \/ SendWithoutEntry \/ CallBackReturns
    BY <1>1, <1>7 DEF EpInit, SendWithoutEntry, CallBackReturns
  <1>8. CASE SendWithoutBuffer \/ SendRejected
    BY <1>2, <1>8 DEF SendWithoutBuffer, SendRejected
  <1>9. CASE SendWithoutAlarm
    BY <1>9 DEF SendWithoutAlarm
  <1>10. ASSUME NEW p \in Packets, OnSendCmdTimeout(p), EntriesOf(p.buf) = {}
         PROVE  [Service!Next]_request
    BY <1>1, <1>10 DEF OnSendCmdTimeout
  <1>11. ASSUME NEW p \in Packets, OnSendCmdCbUnmatched(p) \/ OnSendCmdCbPoolFull(p)
         PROVE  [Service!Next]_request
    BY <1>1, <1>11 DEF OnSendCmdCbUnmatched, OnSendCmdCbPoolFull
  <1>12. CASE UNCHANGED vars
    BY <1>1, <1>12 DEF vars
  <1> HIDE DEF Service!Next, request
  <1> QED BY <1>3, <1>4, <1>5, <1>6, <1>7, <1>8, <1>9, <1>10, <1>11, <1>12 DEF Next, Send

\* While alarms can be scheduled the endpoint keeps the promise of
\* CmdService: every accepted request is answered at most once, for itself.
THEOREM Refinement ==
    ASSUME ~AlarmsMayFail
    PROVE  Spec => ImplementsService
  <1>1. Init => Service!Init
    <2>1. \A t \in Tickets : Outcome(t, "unmade", <<>>) = "unmade"
      BY OutcomeLemma
    <2> QED BY <2>1 DEF Init, Service!Init, Abstract
  <1>2. TypeOK /\ Inv /\ [Next]_vars => [Service!Next]_request
    BY StepRefines
  <1>3. [Service!Next]_request => [Service!Next]_[t \in Tickets |-> Abstract(t)]
    BY DEF request
  <1> QED BY <1>1, <1>2, <1>3, TypeCorrect, InvCorrect, PTL
          DEF Spec, ImplementsService, Service!Safety
=============================================================================
