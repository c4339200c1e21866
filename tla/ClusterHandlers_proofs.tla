----------------------- MODULE ClusterHandlers_proofs -----------------------
(***************************************************************************)
(* Proofs about ClusterHandlers, for any number of endpoints and any       *)
(* devices: the types, and on regular devices that every cluster is served *)
(* by its own handlers from exactly as many slots as were counted.         *)
(***************************************************************************)
EXTENDS ClusterHandlers, FiniteSetTheorems, TLAPS

-----------------------------------------------------------------------------
(* The inductive invariant *)

\* The clusters of a role that were initialised and gave handlers away.
Served(role) == {s \in SitesOf(device, role) : s \notin todo /\ Given(device[s]) # {}}

\* ZBOSS has the handlers of one of them, as soon as there is one.
FirstIsRegistered ==
    \A role \in Roles :
        IF Served(role) = {} THEN registered[role] = None
                             ELSE registered[role] \in Served(role)

\* A slot holds another of them, in the array of its key.
SlotsHoldTheOthers ==
    \A key \in Keys : \A i \in 1..Len(slots[key]) : \E role \in Roles :
        /\ slots[key][i] \in Served(role) \ {registered[role]}
        /\ Key(device, slots[key][i]) = key
        /\ Depth(device, role) > 0

\* Each of them is in a slot,
TheOthersHaveSlots ==
    \A role \in Roles : \A s \in Served(role) \ {registered[role]} :
        \E i \in 1..Len(slots[Key(device, s)]) : slots[Key(device, s)][i] = s

\* in no more than one,
OneSlotEach ==
    \A key \in Keys : \A i, j \in 1..Len(slots[key]) :
        slots[key][i] = slots[key][j] => i = j

\* and so many slots are taken.
SlotsTaken ==
    \A role \in Roles : \A s \in SitesOf(device, role) : Given(device[s]) # {} =>
        Len(slots[Key(device, s)]) =
            IF Served(role) = {} THEN 0 ELSE Cardinality(Served(role)) - 1

TablesInv ==
    /\ TypeOK
    /\ todo \subseteq Present(device)
    /\ ~overflow
    /\ FirstIsRegistered
    /\ SlotsHoldTheOthers
    /\ TheOthersHaveSlots
    /\ OneSlotEach
    /\ SlotsTaken
    /\ WritesAreChecked

-----------------------------------------------------------------------------
(* Counting *)

\* The clusters of a role are no more than the endpoints.
LEMMA SitesOfCount ==
    ASSUME NEW d, NEW role \in Roles
    PROVE  /\ IsFiniteSet(SitesOf(d, role))
           /\ Cardinality(SitesOf(d, role)) \in 0..LastEp
<1> DEFINE Column == Eps \X {role}
           f == [ep \in Eps |-> <<ep, role>>]
<1>1. LastEp \in Nat
  BY ClusterAssumption
<1>2. IsFiniteSet(Eps) /\ Cardinality(Eps) = LastEp
  BY <1>1, FS_Interval DEF Eps
<1>3. f \in Surjection(Eps, Column)
  <2>1. f \in [Eps -> Column]
    OBVIOUS
  <2>2. \A t \in Column : \E ep \in Eps : f[ep] = t
    <3> TAKE t \in Column
    <3>1. t[1] \in Eps /\ t = <<t[1], role>>
      OBVIOUS
    <3> QED
      BY <3>1
  <2> QED
    BY <2>1, <2>2 DEF Surjection
<1> HIDE DEF f
<1>4. IsFiniteSet(Column) /\ Cardinality(Column) <= LastEp
  BY <1>2, <1>3, FS_Surjection
<1>5. SitesOf(d, role) \in SUBSET Column
  BY DEF SitesOf, Present, Sites
<1> HIDE DEF Column
<1>6. /\ IsFiniteSet(SitesOf(d, role)) /\ IsFiniteSet(Column)
      /\ Cardinality(SitesOf(d, role)) <= Cardinality(Column)
  BY <1>4, <1>5, FS_Subset
<1> QED
  BY <1>1, <1>4, <1>6, FS_CardinalityType

\* The depth of an array is a number of endpoints.
LEMMA DepthType ==
    ASSUME NEW d, NEW role \in Roles
    PROVE  Depth(d, role) \in 0..LastEp
<1>1. LastEp \in Nat
  BY ClusterAssumption
<1>2. Counted(d, role) \in SUBSET SitesOf(d, role)
  BY DEF Counted
<1>3. /\ IsFiniteSet(Counted(d, role))
      /\ Cardinality(Counted(d, role)) \in 0..LastEp
  BY <1>1, <1>2, SitesOfCount, FS_Subset, FS_CardinalityType
<1>4. Counted(d, role) # {} => Cardinality(Counted(d, role)) # 0
  BY <1>3, FS_EmptySet
<1> QED
  BY <1>1, <1>3, <1>4 DEF Depth

\* Every cluster has an array of slots.
LEMMA KeyType ==
    ASSUME NEW d, NEW s \in Sites
    PROVE  Key(d, s) \in Keys /\ Key(d, s)[2] = Depth(d, s[2]) /\ s[2] \in Roles
<1>1. s[2] \in Roles
  BY DEF Sites
<1>2. Depth(d, s[2]) \in 0..LastEp
  BY <1>1, DepthType
<1> QED
  BY <1>1, <1>2 DEF Key, Keys, Needs

\* On a regular device a cluster that gives away a handler is initialised
\* with it, is like all others of its role, and all of them are counted.
LEMMA RegularRole ==
    ASSUME NEW d, Regular(d), NEW s \in Present(d), Given(d[s]) # {}
    PROVE  /\ NeedsInit(d[s])
           /\ \A t \in SitesOf(d, s[2]) : d[t] = d[s]
           /\ Depth(d, s[2]) = Cardinality(SitesOf(d, s[2])) - 1
<1>1. \A t \in SitesOf(d, s[2]) : d[t] = d[s]
  BY DEF Regular, SitesOf
<1>2. d[s].set \/ d[s].check
  BY DEF Regular
<1>3. d[s].cmds \/ d[s].check
  BY <1>2 DEF Regular
<1>4. Counted(d, s[2]) = SitesOf(d, s[2])
  BY <1>1, <1>3 DEF Counted
<1>5. s \in SitesOf(d, s[2])
  BY DEF SitesOf
<1> QED
  BY <1>1, <1>2, <1>4, <1>5 DEF NeedsInit, Depth

-----------------------------------------------------------------------------
(* Types *)

\* They start with them.
LEMMA InitTypes == Init => TypeOK
<1> SUFFICES ASSUME Init PROVE TypeOK
  OBVIOUS
<1>1. device \in [Sites -> Kinds \cup {Absent}]
  BY ClusterAssumption DEF Init
<1>2. todo \subseteq Sites
  BY DEF Init, Present
<1>3. slots \in [Keys -> Seq(Sites)] /\ \A key \in Keys : Len(slots[key]) <= key[2]
  BY ClusterAssumption DEF Init, Keys
<1> QED
  BY <1>1, <1>2, <1>3 DEF Init, TypeOK, Nothing

\* The tables have the types the code gives them: an array of slots is never
\* longer than the depth it was made for.
THEOREM TypeCorrect == Spec => []TypeOK
<1>1. Init => TypeOK
  BY InitTypes
<1>2. TypeOK /\ [Next]_vars => TypeOK'
  <2> SUFFICES ASSUME TypeOK, [Next]_vars PROVE TypeOK'
    OBVIOUS
  <2>1. ASSUME NEW s \in Sites, InitCluster(s) PROVE TypeOK'
    <3>1. UNCHANGED <<device, last>> /\ todo' = todo \ {s} /\ s[2] \in Roles
      BY <2>1 DEF InitCluster, Sites
    <3>2. registered' \in [Roles -> Sites \cup {None}]
      <4>1. registered' = registered \/ registered' = [registered EXCEPT ![s[2]] = s]
        BY <2>1 DEF InitCluster
      <4> QED
        BY <4>1 DEF TypeOK
    <3>3. \/ UNCHANGED <<slots, overflow>>
          \/ overflow' = TRUE /\ UNCHANGED slots
          \/ /\ UNCHANGED overflow
             /\ Len(slots[Key(device, s)]) < Depth(device, s[2])
             /\ slots' = [slots EXCEPT ![Key(device, s)] = Append(@, s)]
      BY <2>1 DEF InitCluster, Add
    <3>4. Key(device, s) \in Keys /\ Key(device, s)[2] = Depth(device, s[2])
      BY KeyType
    <3>5. Depth(device, s[2]) \in Nat
      BY <3>1, DepthType
    <3>6. /\ slots' \in [Keys -> Seq(Sites)] /\ overflow' \in BOOLEAN
          /\ \A key \in Keys : Len(slots'[key]) <= key[2]
      <4> DEFINE k == Key(device, s)
      <4>1. /\ slots \in [Keys -> Seq(Sites)] /\ overflow \in BOOLEAN
            /\ \A key \in Keys : Len(slots[key]) <= key[2]
        BY DEF TypeOK
      <4> HIDE DEF k
      <4>2. CASE UNCHANGED slots
        BY <3>3, <4>1, <4>2
      <4>3. CASE /\ UNCHANGED overflow
                 /\ Len(slots[k]) < k[2]
                 /\ slots' = [slots EXCEPT ![k] = Append(@, s)]
        <5>1. k \in Keys /\ slots[k] \in Seq(Sites) /\ k[2] \in Nat
          BY <3>4, <3>5, <4>1 DEF k
        <5>2. Append(slots[k], s) \in Seq(Sites) /\ Len(Append(slots[k], s)) = Len(slots[k]) + 1
          BY <5>1
        <5>3. Len(slots[k]) \in Nat /\ Len(slots[k]) + 1 <= k[2]
          BY <4>3, <5>1
        <5>4. \A key \in Keys : slots'[key] = IF key = k THEN Append(slots[k], s) ELSE slots[key]
          BY <4>1, <4>3
        <5> QED
          BY <4>1, <4>3, <5>1, <5>2, <5>3, <5>4
      <4> QED
        BY <3>3, <3>4, <4>2, <4>3 DEF k
    <3> QED
      BY <3>1, <3>2, <3>6 DEF TypeOK
  <2>2. ASSUME NEW s \in Sites, NEW known, NEW whole, NEW isSet, NEW disable, NEW result,
               Command(s, known, whole, isSet, result, disable)
        PROVE  TypeOK'
    BY <2>2 DEF Command, TypeOK, Ops
  <2>3. ASSUME NEW s \in Sites, NEW validated, NEW valid, CheckValue(s, validated, valid)
        PROVE  TypeOK'
    BY <2>3 DEF CheckValue, TypeOK, Ops
  <2>4. ASSUME NEW s \in Sites, NEW readable, WriteHook(s, readable) PROVE TypeOK'
    BY <2>4 DEF WriteHook, TypeOK, Ops
  <2>5. CASE UNCHANGED vars
    BY <2>5 DEF vars, TypeOK
  <2> QED
    BY <2>1, <2>2, <2>3, <2>4, <2>5 DEF Next
<1> QED
  BY <1>1, <1>2, PTL DEF Spec

-----------------------------------------------------------------------------
(* The tables after the start *)

\* A cluster that gives nothing away changes no table.
LEMMA SilentStep ==
    ASSUME TypeOK, TablesInv, NEW s \in Sites, InitCluster(s), Given(device[s]) = {}
    PROVE  TablesInv' \/ ~TypeOK'
<1> SUFFICES ASSUME TypeOK' PROVE TablesInv'
  OBVIOUS
<1>1. /\ UNCHANGED <<device, registered, slots, overflow, last>>
      /\ todo' = todo \ {s}
  BY DEF InitCluster
<1>2. \A role : Served(role)' = Served(role)
  BY <1>1 DEF Served
<1>3. FirstIsRegistered'
  BY <1>1, <1>2 DEF TablesInv, FirstIsRegistered
<1>4. SlotsHoldTheOthers'
  BY <1>1, <1>2 DEF TablesInv, SlotsHoldTheOthers
<1>5. TheOthersHaveSlots'
  BY <1>1, <1>2 DEF TablesInv, TheOthersHaveSlots
<1>6. SlotsTaken'
  BY <1>1, <1>2 DEF TablesInv, SlotsTaken
<1> QED
  BY <1>1, <1>3, <1>4, <1>5, <1>6 DEF TablesInv, OneSlotEach, WritesAreChecked

\* What a cluster that gives something away does: it joins those served.
LEMMA ServedStep ==
    ASSUME TablesInv, Regular(device), NEW s \in Sites, InitCluster(s), Given(device[s]) # {}
    PROVE  /\ s \in Present(device) /\ s \in todo /\ todo' = todo \ {s}
           /\ UNCHANGED <<device, last>>
           /\ \A role : s \notin Served(role)
           /\ \A role : Served(role)' = IF role = s[2] THEN Served(role) \cup {s} ELSE Served(role)
           /\ \/ /\ registered[s[2]] = None
                 /\ registered' = [registered EXCEPT ![s[2]] = s]
                 /\ UNCHANGED <<slots, overflow>>
              \/ registered[s[2]] # None /\ Add(s) /\ UNCHANGED registered
<1>1. /\ s \in Present(device) /\ s \in todo /\ todo' = todo \ {s}
      /\ UNCHANGED <<device, last>>
  BY DEF InitCluster, TablesInv
<1>2. NeedsInit(device[s])
  BY <1>1, RegularRole
<1>3. \A role : Served(role)' = IF role = s[2] THEN Served(role) \cup {s} ELSE Served(role)
  BY <1>1 DEF Served, SitesOf
<1> QED
  BY <1>1, <1>2, <1>3 DEF InitCluster, Served

\* The first of its role that gives something away is registered.
LEMMA FirstStep ==
    ASSUME TypeOK, TablesInv, Regular(device), NEW s \in Sites, InitCluster(s),
           Given(device[s]) # {}, registered[s[2]] = None
    PROVE  TablesInv' \/ ~TypeOK'
<1> SUFFICES ASSUME TypeOK' PROVE TablesInv'
  OBVIOUS
<1>1. /\ s \in Present(device) /\ s \in todo /\ todo' = todo \ {s}
      /\ registered' = [registered EXCEPT ![s[2]] = s]
      /\ UNCHANGED <<device, slots, overflow, last>>
      /\ s[2] \in Roles
  BY ServedStep DEF Sites
<1>2. Served(s[2]) = {}
  BY <1>1, ClusterAssumption DEF TablesInv, FirstIsRegistered, Served, SitesOf, Present
<1>3. \A role : Served(role)' = IF role = s[2] THEN {s} ELSE Served(role)
  BY <1>2, ServedStep
<1>4. \A role \in Roles : registered'[role] = IF role = s[2] THEN s ELSE registered[role]
  BY <1>1 DEF TypeOK
<1>5. FirstIsRegistered'
  BY <1>3, <1>4 DEF TablesInv, FirstIsRegistered
<1>6. SlotsHoldTheOthers'
  <2> SUFFICES ASSUME NEW key \in Keys, NEW i \in 1..Len(slots[key])
               PROVE  \E role \in Roles :
                         /\ slots[key][i] \in Served(role)' \ {registered'[role]}
                         /\ Key(device, slots[key][i]) = key
                         /\ Depth(device, role) > 0
    BY <1>1 DEF SlotsHoldTheOthers
  <2>1. PICK role \in Roles : /\ slots[key][i] \in Served(role) \ {registered[role]}
                             /\ Key(device, slots[key][i]) = key
                             /\ Depth(device, role) > 0
    BY DEF TablesInv, SlotsHoldTheOthers
  <2>2. role # s[2]
    BY <1>2, <2>1
  <2> QED
    BY <1>3, <1>4, <2>1, <2>2
<1>7. TheOthersHaveSlots'
  BY <1>1, <1>3, <1>4 DEF TablesInv, TheOthersHaveSlots
<1>8. SlotsTaken'
  <2> SUFFICES ASSUME NEW role \in Roles, NEW t \in SitesOf(device, role), Given(device[t]) # {}
               PROVE  Len(slots[Key(device, t)]) =
                         IF Served(role)' = {} THEN 0 ELSE Cardinality(Served(role)') - 1
    BY <1>1 DEF SlotsTaken
  <2>1. Len(slots[Key(device, t)]) =
            IF Served(role) = {} THEN 0 ELSE Cardinality(Served(role)) - 1
    BY DEF TablesInv, SlotsTaken
  <2>2. Cardinality({s}) = 1
    BY FS_Singleton
  <2>3. CASE role = s[2]
    <3>1. Served(role) = {} /\ Served(role)' = {s}
      BY <1>2, <1>3, <2>3
    <3>2. {s} # {} /\ Cardinality({s}) - 1 = 0
      BY <2>2
    <3> QED
      BY <2>1, <3>1, <3>2
  <2>4. CASE role # s[2]
    <3>1. Served(role)' = Served(role)
      BY <1>3, <2>4
    <3> QED
      BY <2>1, <3>1
  <2> QED
    BY <2>3, <2>4
<1> QED
  BY <1>1, <1>5, <1>6, <1>7, <1>8 DEF TablesInv, OneSlotEach, WritesAreChecked

\* Every further one takes a slot of its array.
LEMMA FurtherStep ==
    ASSUME TypeOK, TablesInv, Regular(device), NEW s \in Sites, InitCluster(s),
           Given(device[s]) # {}, registered[s[2]] # None
    PROVE  TablesInv' \/ ~TypeOK'
<1> SUFFICES ASSUME TypeOK' PROVE TablesInv'
  OBVIOUS
<1> DEFINE k == Key(device, s)
           role == s[2]
<1>1. /\ s \in Present(device) /\ s \in todo /\ todo' = todo \ {s}
      /\ UNCHANGED <<device, registered, last>>
      /\ role \in Roles /\ Add(s)
  BY ServedStep DEF Sites
<1>2. Served(role) # {} /\ registered[role] \in Served(role) /\ s \notin Served(role)
  BY <1>1, ServedStep DEF TablesInv, FirstIsRegistered
<1>3. \A r : Served(r)' = IF r = role THEN Served(r) \cup {s} ELSE Served(r)
  BY ServedStep
<1>4. /\ IsFiniteSet(Served(role)) /\ Cardinality(Served(role)) \in Nat
      /\ Cardinality(Served(role)) # 0
      /\ Cardinality(Served(role) \cup {s}) = Cardinality(Served(role)) + 1
      /\ Cardinality(Served(role)) < Cardinality(SitesOf(device, role))
  <2>1. Served(role) \in SUBSET SitesOf(device, role)
    BY DEF Served
  <2>2. Served(role) # SitesOf(device, role)
    BY <1>1, <1>2 DEF SitesOf
  <2>3. /\ IsFiniteSet(Served(role)) /\ IsFiniteSet(SitesOf(device, role))
        /\ Cardinality(Served(role)) <= Cardinality(SitesOf(device, role))
        /\ Cardinality(Served(role)) # Cardinality(SitesOf(device, role))
    BY <1>1, <2>1, <2>2, SitesOfCount, FS_Subset
  <2>4. Cardinality(Served(role)) \in Nat /\ Cardinality(SitesOf(device, role)) \in Nat
    BY <2>3, FS_CardinalityType
  <2>5. Cardinality(Served(role)) # 0
    BY <1>2, <2>3, FS_EmptySet
  <2>6. Cardinality(Served(role) \cup {s}) = Cardinality(Served(role)) + 1
    BY <1>2, <2>3, FS_AddElement
  <2> QED
    BY <2>3, <2>4, <2>5, <2>6
<1>5. /\ Depth(device, role) = Cardinality(SitesOf(device, role)) - 1
      /\ Depth(device, role) \in Nat
      /\ Len(slots[k]) = Cardinality(Served(role)) - 1
  <2>1. Len(slots[k]) = Cardinality(Served(role)) - 1
    <3>1. s \in SitesOf(device, role)
      BY <1>1 DEF SitesOf
    <3> QED
      BY <1>1, <1>2, <3>1 DEF TablesInv, SlotsTaken
  <2> QED
    BY <1>1, <2>1, RegularRole, DepthType
<1>6. Depth(device, role) > 0 /\ Len(slots[k]) < Depth(device, role)
  <2>1. Cardinality(SitesOf(device, role)) \in Nat
    BY <1>1, SitesOfCount
  <2> HIDE DEF role, k
  <2> QED
    BY <1>4, <1>5, <2>1
<1>7. slots' = [slots EXCEPT ![k] = Append(@, s)] /\ UNCHANGED overflow
  BY <1>1, <1>6 DEF Add
<1>8. k \in Keys /\ slots[k] \in Seq(Sites)
  BY KeyType DEF TypeOK
<1>9. /\ \A key \in Keys \ {k} : slots'[key] = slots[key]
      /\ Len(slots'[k]) = Len(slots[k]) + 1 /\ Len(slots[k]) \in Nat
      /\ slots'[k][Len(slots[k]) + 1] = s
      /\ \A i \in 1..Len(slots[k]) : slots'[k][i] = slots[k][i]
  <2>1. slots'[k] = Append(slots[k], s)
    BY <1>7, <1>8 DEF TypeOK
  <2> QED
    BY <1>7, <1>8, <2>1 DEF TypeOK
\* The array belongs to the role of s.
<1>10. \A t \in Present(device) : Key(device, t) = k => t[2] = role
  BY <1>1, <1>6 DEF Regular
<1> HIDE DEF k, role
<1>11. FirstIsRegistered'
  BY <1>1, <1>2, <1>3 DEF TablesInv, FirstIsRegistered
<1>12. SlotsHoldTheOthers'
  <2> SUFFICES ASSUME NEW key \in Keys, NEW i \in 1..Len(slots'[key])
               PROVE  \E r \in Roles :
                         /\ slots'[key][i] \in Served(r)' \ {registered[r]}
                         /\ Key(device, slots'[key][i]) = key
                         /\ Depth(device, r) > 0
    BY <1>1 DEF SlotsHoldTheOthers
  <2>1. CASE i \in 1..Len(slots[key]) /\ slots'[key][i] = slots[key][i]
    <3>1. PICK r \in Roles : /\ slots[key][i] \in Served(r) \ {registered[r]}
                            /\ Key(device, slots[key][i]) = key
                            /\ Depth(device, r) > 0
      BY <2>1 DEF TablesInv, SlotsHoldTheOthers
    <3> QED
      BY <1>3, <2>1, <3>1
  <2>2. CASE key = k /\ slots'[key][i] = s
    <3>1. s \in Served(role)' \ {registered[role]}
      BY <1>2, <1>3
    <3>2. Key(device, s) = k
      BY DEF k
    <3> QED
      BY <1>1, <1>6, <2>2, <3>1, <3>2
  <2>3. key = k => i \in 1..Len(slots[key]) \/ i = Len(slots[k]) + 1
    BY <1>9
  <2> QED
    BY <1>9, <2>1, <2>2, <2>3
<1>13. TheOthersHaveSlots'
  <2> SUFFICES ASSUME NEW r \in Roles, NEW t \in Served(r)' \ {registered[r]}
               PROVE  \E i \in 1..Len(slots'[Key(device, t)]) : slots'[Key(device, t)][i] = t
    BY <1>1 DEF TheOthersHaveSlots
  <2>1. CASE t = s
    BY <1>9, <2>1 DEF k
  <2>2. CASE t \in Served(r)
    <3>1. PICK i \in 1..Len(slots[Key(device, t)]) : slots[Key(device, t)][i] = t
      BY <2>2 DEF TablesInv, TheOthersHaveSlots
    <3>2. Key(device, t) \in Keys
      BY <2>2, KeyType DEF Served, SitesOf, Present
    <3> QED
      BY <1>9, <3>1, <3>2
  <2> QED
    BY <1>3, <2>1, <2>2
<1>14. OneSlotEach'
  <2> SUFFICES ASSUME NEW key \in Keys, NEW i \in 1..Len(slots'[key]),
                      NEW j \in 1..Len(slots'[key]), slots'[key][i] = slots'[key][j]
               PROVE  i = j
    BY DEF OneSlotEach
  <2>1. CASE key # k
    BY <1>9, <2>1 DEF TablesInv, OneSlotEach
  <2>2. CASE key = k
    <3>1. \A n \in 1..Len(slots[k]) : slots[k][n] # s
      <4> SUFFICES ASSUME NEW n \in 1..Len(slots[k]), slots[k][n] = s PROVE FALSE
        OBVIOUS
      <4>1. PICK r \in Roles : s \in Served(r)
        BY <1>8 DEF TablesInv, SlotsHoldTheOthers
      <4> QED
        BY <4>1, ServedStep
    <3>2. \A m, n \in 1..Len(slots[k]) : slots[k][m] = slots[k][n] => m = n
      BY <1>8 DEF TablesInv, OneSlotEach
    <3>3. /\ i \in 1..Len(slots[k]) \/ i = Len(slots[k]) + 1
          /\ j \in 1..Len(slots[k]) \/ j = Len(slots[k]) + 1
      BY <1>9, <2>2
    <3> QED
      BY <1>9, <2>2, <3>1, <3>2, <3>3
  <2> QED
    BY <2>1, <2>2
<1>15. SlotsTaken'
  <2> SUFFICES ASSUME NEW r \in Roles, NEW t \in SitesOf(device, r), Given(device[t]) # {}
               PROVE  Len(slots'[Key(device, t)]) =
                         IF Served(r)' = {} THEN 0 ELSE Cardinality(Served(r)') - 1
    BY <1>1 DEF SlotsTaken
  <2>1. Len(slots[Key(device, t)]) =
            IF Served(r) = {} THEN 0 ELSE Cardinality(Served(r)) - 1
    BY DEF TablesInv, SlotsTaken
  <2>2. t \in Present(device) /\ t[2] = r
    BY DEF SitesOf
  <2>3. Key(device, t) \in Keys
    BY KeyType DEF SitesOf, Present
  <2>4. CASE Key(device, t) = k
    <3>1. r = role /\ Served(r)' = Served(role) \cup {s}
      BY <1>3, <1>10, <2>2, <2>4
    <3> QED
      BY <1>2, <1>4, <1>9, <2>1, <2>4, <3>1
  <2>5. CASE Key(device, t) # k
    <3>1. r # role
      <4>1. ASSUME r = role PROVE device[t] = device[s]
        BY <1>1, <2>2, <4>1 DEF Regular, role
      <4> QED
        BY <2>2, <2>5, <4>1 DEF Key, k, role
    <3> QED
      BY <1>3, <1>9, <2>1, <2>3, <2>5, <3>1
  <2> QED
    BY <2>4, <2>5
<1> QED
  BY <1>1, <1>7, <1>11, <1>12, <1>13, <1>14, <1>15 DEF TablesInv, WritesAreChecked

\* Once all clusters are initialised, each is found from the registered one.
LEMMA ServedByOwn == TablesInv /\ Regular(device) => AllServed
<1> SUFFICES ASSUME TablesInv, Regular(device), todo = {},
                    NEW s \in Present(device), NEW op \in Given(device[s])
             PROVE  Route(s, op) = By("handled", s)
  BY DEF AllServed
<1> DEFINE r == registered[s[2]]
           k == Key(device, r)
<1>1. s \in Sites /\ s[2] \in Roles /\ s \in Served(s[2])
  BY DEF Present, Sites, Served, SitesOf
<1>2. r \in Served(s[2])
  BY <1>1 DEF TablesInv, FirstIsRegistered
<1>3. r \in Sites /\ r \in Present(device) /\ r[2] = s[2] /\ r # None
  BY <1>2, ClusterAssumption DEF Served, SitesOf, Present
<1>4. device[r] = device[s] /\ k = Key(device, s)
  BY <1>3 DEF Regular, Key
<1>5. op \in Given(device[r])
  BY <1>4
<1>6. r[1] = s[1] => r = s
  BY <1>1, <1>3 DEF Sites
<1>7. CASE r[1] = s[1]
  BY <1>3, <1>5, <1>6, <1>7 DEF Route
<1>8. CASE r[1] # s[1]
  <2>1. PICK i \in 1..Len(slots[k]) : slots[k][i] = s
    BY <1>1, <1>4, <1>8 DEF TablesInv, TheOthersHaveSlots
  <2>2. k \in Keys
    BY <1>3, KeyType
  <2>3. \A j \in 1..Len(slots[k]) : slots[k][j][1] = s[1] => j = i
    <3> SUFFICES ASSUME NEW j \in 1..Len(slots[k]), slots[k][j][1] = s[1] PROVE j = i
      OBVIOUS
    <3>1. PICK role \in Roles : /\ slots[k][j] \in Served(role)
                               /\ Key(device, slots[k][j]) = k
                               /\ Depth(device, role) > 0
      BY <2>2 DEF TablesInv, SlotsHoldTheOthers
    <3>2. slots[k][j] \in Present(device) /\ slots[k][j][2] = role /\ slots[k][j] \in Sites
      BY <3>1 DEF Served, SitesOf, Present
    <3>3. role = s[2]
      BY <1>4, <3>1, <3>2 DEF Regular
    <3>4. slots[k][j] = s
      BY <1>1, <3>2, <3>3 DEF Sites
    <3> QED
      BY <2>1, <2>2, <3>4 DEF TablesInv, OneSlotEach
  <2>4. Depth(device, s[2]) # 0
    <3>1. PICK role \in Roles : s \in Served(role) /\ Depth(device, role) > 0
      BY <2>1, <2>2 DEF TablesInv, SlotsHoldTheOthers
    <3> QED
      BY <3>1 DEF Served, SitesOf
  <2> HIDE DEF k, r
  <2>5. Found(k, s[1]) = {i}
    <3>1. i \in Found(k, s[1])
      <4>1. Len(slots[k]) \in Nat
        BY <2>2 DEF TablesInv, TypeOK
      <4> QED
        BY <2>1, <2>3, <4>1 DEF Found
    <3> QED
      BY <2>3, <3>1 DEF Found
  <2>6. slots[k][CHOOSE j \in Found(k, s[1]) : TRUE] = s
    BY <2>1, <2>5
  <2>7. InSlot(s, op) = By("handled", s)
    BY DEF InSlot
  <2>8. Route(s, op) = InSlot(slots[k][CHOOSE j \in Found(k, s[1]) : TRUE], op)
    BY <1>3, <1>5, <1>8, <2>4, <2>5 DEF Route, k, r
  <2> QED
    BY <2>6, <2>7, <2>8
<1> QED
  BY <1>7, <1>8

\* A call of ZBOSS changes no table; a value is only accepted by the cluster
\* it is for.
LEMMA CheckStep ==
    ASSUME TablesInv, Regular(device), NEW s \in Sites, NEW validated \in BOOLEAN,
           NEW valid \in BOOLEAN, CheckValue(s, validated, valid)
    PROVE  WritesAreChecked'
<1> SUFFICES ASSUME validated, ~valid PROVE ~last'.accepted
  BY DEF CheckValue, WritesAreChecked
<1>1. s \in Present(device) /\ todo = {} /\ "check" \in Given(device[s])
  BY DEF CheckValue, Calling, Given, Ops
<1>2. Route(s, "check") = By("handled", s)
  BY <1>1, ServedByOwn DEF AllServed
<1> QED
  BY <1>2 DEF CheckValue, By

\* The tables are what the code counts on, whatever regular device it is.
THEOREM TablesCorrect == Spec => [](Regular(device) => TablesInv)
<1>1. Init => (Regular(device) => TablesInv)
  <2> SUFFICES ASSUME Init PROVE TablesInv
    OBVIOUS
  <2>1. TypeOK
    BY InitTypes
  <2>2. \A role : Served(role) = {}
    BY DEF Init, Served, SitesOf
  <2>3. \A key \in Keys : Len(slots[key]) = 0
    BY DEF Init
  <2>4. FirstIsRegistered
    BY <2>2 DEF Init, FirstIsRegistered
  <2>5. SlotsHoldTheOthers /\ OneSlotEach /\ TheOthersHaveSlots
    BY <2>2, <2>3 DEF SlotsHoldTheOthers, OneSlotEach, TheOthersHaveSlots
  <2>6. SlotsTaken
    BY <2>2, <2>3, KeyType DEF SlotsTaken, SitesOf, Present
  <2> QED
    BY <2>1, <2>4, <2>5, <2>6, ClusterAssumption DEF Init, TablesInv, WritesAreChecked, Nothing, Ops
<1>2. TypeOK /\ TypeOK' /\ (Regular(device) => TablesInv) /\ [Next]_vars
        => (Regular(device) => TablesInv)'
  <2> SUFFICES ASSUME TypeOK, TypeOK', Regular(device) => TablesInv, [Next]_vars, Regular(device')
               PROVE  TablesInv'
    BY DEF Regular, SitesOf, Present, Key, Depth, Counted
  <2>1. device' = device
    <3>1. \A s \in Sites : InitCluster(s) => device' = device
      BY DEF InitCluster
    <3>2. \A s, known, whole, isSet, disable, result :
             Command(s, known, whole, isSet, result, disable) => device' = device
      BY ZenonT(30) DEF Command
    <3>3. \A s, validated, valid : CheckValue(s, validated, valid) => device' = device
      BY DEF CheckValue
    <3>4. \A s, readable : WriteHook(s, readable) => device' = device
      BY DEF WriteHook
    <3> QED
      BY <3>1, <3>2, <3>3, <3>4 DEF Next, vars
  <2>2. Regular(device) /\ TablesInv
    BY <2>1
  <2>3. ASSUME NEW s \in Sites, InitCluster(s) PROVE TablesInv'
    BY <2>2, <2>3, SilentStep, FirstStep, FurtherStep
  <2>4. ASSUME UNCHANGED <<device, todo, registered, slots, overflow>>, WritesAreChecked'
        PROVE  TablesInv'
    <3>1. \A role : Served(role)' = Served(role)
      BY <2>4 DEF Served
    <3>2. FirstIsRegistered' /\ SlotsTaken'
      BY <2>2, <2>4, <3>1 DEF TablesInv, FirstIsRegistered, SlotsTaken
    <3>3. SlotsHoldTheOthers' /\ TheOthersHaveSlots'
      BY <2>2, <2>4, <3>1 DEF TablesInv, SlotsHoldTheOthers, TheOthersHaveSlots
    <3> QED
      BY <2>2, <2>4, <3>2, <3>3 DEF TablesInv, OneSlotEach
  <2>5. ASSUME NEW s \in Sites, NEW known, NEW whole, NEW isSet, NEW disable, NEW result,
               Command(s, known, whole, isSet, result, disable)
        PROVE  TablesInv'
    BY <2>4, <2>5 DEF Command, WritesAreChecked
  <2>6. ASSUME NEW s \in Sites, NEW validated \in BOOLEAN, NEW valid \in BOOLEAN,
               CheckValue(s, validated, valid)
        PROVE  TablesInv'
    BY <2>2, <2>4, <2>6, CheckStep DEF CheckValue
  <2>7. ASSUME NEW s \in Sites, NEW readable, WriteHook(s, readable) PROVE TablesInv'
    BY <2>4, <2>7 DEF WriteHook, WritesAreChecked
  <2>8. CASE UNCHANGED vars
    BY <2>2, <2>4, <2>8 DEF vars, TablesInv, WritesAreChecked
  <2> QED
    BY <2>3, <2>5, <2>6, <2>7, <2>8 DEF Next
<1> QED
  BY <1>1, <1>2, TypeCorrect, PTL DEF Spec

\* On a regular device every cluster is reached, for everything it gives a
\* handler for, by its own handler, on any endpoint and in both roles.
THEOREM ServedCorrect == Spec => [](Regular(device) => AllServed)
BY TablesCorrect, ServedByOwn, PTL

\* On a regular device the slots counted at compile time are enough and none
\* is left over.
THEOREM SlotsCorrect == Spec => [](Regular(device) => SlotsSuffice)
<1>1. TablesInv /\ Regular(device) => SlotsSuffice
  <2> SUFFICES ASSUME TablesInv, Regular(device), todo = {},
                      NEW s \in Present(device), Given(device[s]) # {}
               PROVE  Len(slots[Key(device, s)]) = Depth(device, s[2])
    BY DEF SlotsSuffice, TablesInv
  <2>1. s[2] \in Roles /\ s \in SitesOf(device, s[2])
    BY DEF SitesOf, Present, Sites
  <2>2. Served(s[2]) = SitesOf(device, s[2])
    BY RegularRole DEF Served
  <2>3. Served(s[2]) # {}
    BY <2>1, <2>2
  <2>4. Len(slots[Key(device, s)]) = Cardinality(Served(s[2])) - 1
    BY <2>1, <2>3 DEF TablesInv, SlotsTaken
  <2> QED
    BY <2>2, <2>4, RegularRole
<1> QED
  BY <1>1, TablesCorrect, PTL

\* On a regular device no value is accepted that the validator of its
\* attribute refuses.
THEOREM WritesChecked == Spec => [](Regular(device) => WritesAreChecked)
<1>1. TablesInv => WritesAreChecked
  BY DEF TablesInv
<1> QED
  BY <1>1, TablesCorrect, PTL
=============================================================================
