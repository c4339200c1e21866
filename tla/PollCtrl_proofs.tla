-------------------------- MODULE PollCtrl_proofs --------------------------
(***************************************************************************)
(* Proofs about PollCtrl, for every number of buffers, starts, stops and   *)
(* alarms: no check-in chain ends or forks, and a check-in that keeps the  *)
(* device awake has its alarm.  They assume that no buffer has the number  *)
(* of the endpoint, which stop() frees.                                    *)
(***************************************************************************)
EXTENDS PollCtrl, FiniteSetTheorems, TLAPS

\* A buffer that begins to wait for its bind check is one more, one that
\* has been answered one less, and any other change of place counts nothing.
LEMMA BindingCount ==
    ASSUME TypeOK, TypeOK', NEW b \in Bufs,
           NEW place \in Places, bufs' = [bufs EXCEPT ![b] = place]
    PROVE  /\ Cardinality(Binding) \in Nat
           /\ Cardinality(Binding') =
                 IF bufs[b] = "binding"
                 THEN IF place = "binding" THEN Cardinality(Binding) ELSE Cardinality(Binding) - 1
                 ELSE IF place = "binding" THEN Cardinality(Binding) + 1 ELSE Cardinality(Binding)
  <1>1. IsFiniteSet(Binding) /\ Cardinality(Binding) \in Nat
    BY PollAssumption, FS_Subset, FS_CardinalityType DEF Binding
  <1>2. Binding' = IF place = "binding" THEN Binding \cup {b} ELSE Binding \ {b}
    BY DEF Binding, TypeOK
  <1>3. b \in Binding <=> bufs[b] = "binding"
    BY DEF Binding
  <1>4. CASE place = "binding"
    <2>1. Cardinality(Binding \cup {b}) =
             IF b \in Binding THEN Cardinality(Binding) ELSE Cardinality(Binding) + 1
      BY <1>1, FS_AddElement
    <2> QED BY <1>1, <1>2, <1>3, <1>4, <2>1
  <1>5. CASE place # "binding"
    <2>1. Cardinality(Binding \ {b}) =
             IF b \in Binding THEN Cardinality(Binding) - 1 ELSE Cardinality(Binding)
      BY <1>1, FS_RemoveElement
    <2> QED BY <1>1, <1>2, <1>3, <1>5, <2>1
  <1> QED BY <1>4, <1>5

LEMMA BindingFinite ==
    ASSUME TypeOK
    PROVE  Cardinality(Binding) \in Nat
  BY PollAssumption, FS_Subset, FS_CardinalityType DEF Binding

-----------------------------------------------------------------------------
LEMMA InitInv == Init => Inv
  <1> SUFFICES ASSUME Init PROVE Inv
    OBVIOUS
  <1>1. TypeOK
    BY PollAssumption DEF Init, TypeOK, Places
  <1>2. Binding = {}
    BY DEF Init, Binding
  <1>3. ChainsGoOn
    BY <1>2, FS_EmptySet DEF Init, ChainsGoOn
  <1> QED BY <1>1, <1>3 DEF Init, Inv, FastPollEnds

\* One step per action: what it moves from one place of a chain to another.
LEMMA StepInv == EpBuf \notin Bufs => (Inv /\ [Next]_vars => Inv')
  <1> SUFFICES ASSUME EpBuf \notin Bufs, Inv, [Next]_vars PROVE Inv'
    OBVIOUS
  <1> USE PollAssumption
  <1>t. TypeOK /\ ChainsGoOn /\ FastPollEnds /\ chains <= starts /\ Cardinality(Binding) \in Nat
    BY BindingFinite DEF Inv
  <1>b. /\ requests \in Nat /\ checkIns \in Nat /\ noResponses \in Nat /\ chains \in Nat
        /\ starts \in Nat /\ stops \in Nat
    BY <1>t DEF TypeOK
  <1>s. bufs' = bufs => Binding' = Binding
    BY DEF Binding
  <1>1. CASE Start
    BY <1>1, <1>t, <1>b, <1>s DEF Start, Inv, TypeOK, ChainsGoOn, FastPollEnds
  <1>2. CASE Stop
    <2>1. bufs' = bufs
      BY <1>2, <1>t DEF Stop, TypeOK
    <2> QED BY <1>2, <2>1, <1>t, <1>b, <1>s
              DEF Stop, OneLess, Inv, TypeOK, ChainsGoOn, FastPollEnds
  <1>3. CASE CheckInAlarm
    BY <1>3, <1>t, <1>b, <1>s DEF CheckInAlarm, Inv, TypeOK, ChainsGoOn, FastPollEnds
  <1>4. CASE OnNoResponse
    BY <1>4, <1>t, <1>b, <1>s DEF OnNoResponse, Inv, TypeOK, ChainsGoOn, FastPollEnds
  <1>5. ASSUME NEW b \in Bufs, GotBuffer(b) PROVE Inv'
    <2>1. TypeOK' /\ bufs' = [bufs EXCEPT ![b] = "binding"] /\ bufs[b] # "binding"
      BY <1>5, <1>t, <1>b DEF GotBuffer, TypeOK, Places
    <2>2. Cardinality(Binding') = Cardinality(Binding) + 1
      BY <2>1, <1>t, BindingCount DEF Places
    <2> QED BY <1>5, <2>1, <2>2, <1>t, <1>b DEF GotBuffer, Inv, ChainsGoOn, FastPollEnds
  <1>6. ASSUME NEW b \in Bufs, Unbound(b) PROVE Inv'
    <2>1. checkIns + 1 <= MaxStarts
      <3>1. Cardinality(Binding) # 0
        BY <1>6, FS_EmptySet, FS_Subset DEF Unbound, Binding
      <3> QED BY <3>1, <1>t, <1>b DEF TypeOK, ChainsGoOn
    <2>2. TypeOK' /\ bufs' = [bufs EXCEPT ![b] = "free"] /\ bufs[b] = "binding"
      BY <1>6, <2>1, <1>t, <1>b DEF Unbound, TypeOK, Places
    <2>3. Cardinality(Binding') = Cardinality(Binding) - 1
      BY <2>2, <1>t, BindingCount DEF Places
    <2> QED BY <1>6, <2>2, <2>3, <1>t, <1>b DEF Unbound, Inv, ChainsGoOn, FastPollEnds
  <1>7. ASSUME NEW b \in Bufs, NEW place \in SendOutcomes, Bound(b, place) PROVE Inv'
    <2>1. checkIns + 1 <= MaxStarts
      <3>1. Cardinality(Binding) # 0
        BY <1>7, FS_EmptySet, FS_Subset DEF Bound, Binding
      <3> QED BY <3>1, <1>t, <1>b DEF TypeOK, ChainsGoOn
    <2>2. TypeOK' /\ bufs' = [bufs EXCEPT ![b] = place] /\ bufs[b] = "binding"
      BY <1>7, <2>1, <1>t, <1>b DEF Bound, TypeOK, Places, SendOutcomes
    <2>3. Cardinality(Binding') = Cardinality(Binding) - 1
      BY <2>2, <1>t, BindingCount DEF Places, SendOutcomes
    <2> QED BY <1>7, <2>2, <2>3, <1>t, <1>b DEF Bound, Inv, ChainsGoOn, FastPollEnds
  <1>8. ASSUME NEW b \in Bufs, NEW ok \in BOOLEAN, OnCheckInSent(b, ok) PROVE Inv'
    <2>1. TypeOK' /\ bufs' = [bufs EXCEPT ![b] = "free"] /\ bufs[b] # "binding"
      BY <1>8, <1>t, <1>b DEF OnCheckInSent, Rearmed, OneLess, TypeOK, Places
    <2>2. Cardinality(Binding') = Cardinality(Binding)
      BY <2>1, <1>t, BindingCount DEF Places
    <2> QED BY <1>8, <2>1, <2>2, <1>t, <1>b
              DEF OnCheckInSent, Rearmed, OneLess, Inv, ChainsGoOn, FastPollEnds
  <1>9. ASSUME NEW start \in BOOLEAN, OnCheckInResponse(start) PROVE Inv'
    BY <1>9, <1>t, <1>b, <1>s DEF OnCheckInResponse, Inv, TypeOK, ChainsGoOn, FastPollEnds
  <1>10. CASE OnFastPollStop \/ FastPollTimesOut
    BY <1>10, <1>t, <1>b, <1>s
       DEF OnFastPollStop, FastPollTimesOut, Inv, TypeOK, ChainsGoOn, FastPollEnds
  <1>11. CASE UNCHANGED vars
    BY <1>11, <1>t, <1>s DEF vars, Inv, TypeOK, ChainsGoOn, FastPollEnds
  <1> QED BY <1>1, <1>2, <1>3, <1>4, <1>5, <1>6, <1>7, <1>8, <1>9, <1>10, <1>11
             DEF Next, Validated, Confirmed

LEMMA InvCorrect == ASSUME EpBuf \notin Bufs PROVE Spec => []Inv
  <1>1. Inv /\ [Next]_vars => Inv'
    BY StepInv
  <1> QED BY <1>1, InitInv, PTL DEF Spec

-----------------------------------------------------------------------------
\* Every variable keeps its type: what is counted stays within its bounds.
THEOREM TypeCorrect == ASSUME EpBuf \notin Bufs PROVE Spec => []TypeOK
  <1>1. Inv => TypeOK
    BY DEF Inv
  <1> QED BY <1>1, InvCorrect, PTL

\* Every chain that was started and not stopped waits at exactly one place.
THEOREM ChainsNeitherEndNorFork == ASSUME EpBuf \notin Bufs PROVE Spec => []ChainsGoOn
  <1>1. Inv => ChainsGoOn
    BY DEF Inv
  <1> QED BY <1>1, InvCorrect, PTL

\* A device that polls fast for a check-in has the alarm that ends it.
THEOREM FastPollHasAnEnd == ASSUME EpBuf \notin Bufs PROVE Spec => []FastPollEnds
  <1>1. Inv => FastPollEnds
    BY DEF Inv
  <1> QED BY <1>1, InvCorrect, PTL
=============================================================================
