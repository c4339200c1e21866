-------------------------- MODULE ClusterHandlers --------------------------
(***************************************************************************)
(* How a cluster of an endpoint gets its commands, checks and write hooks: *)
(* generic_cluster_init and the handlers of impl/zbm_cluster.hpp, with     *)
(* analyze_global_cluster_info of impl/zbm_device.hpp.                     *)
(*                                                                         *)
(* ZBOSS, which is external, keeps one set of handlers for a cluster id    *)
(* and a role, whatever the endpoint.  The first cluster that is           *)
(* initialised gives it its handlers; the others of the device are put     *)
(* into an array of slots, sized at compile time, where the handlers of    *)
(* the first find them by their endpoint.  One cluster id is modelled:     *)
(* every other id has tables of its own.                                   *)
(*                                                                         *)
(* A definition marked "slip" is a mistake the code could have made, kept  *)
(* beside what it would break; nothing of the specification uses it.       *)
(***************************************************************************)
EXTENDS Naturals, FiniteSets, Sequences

CONSTANTS LastEp,       \* endpoints are 1..LastEp
          Devices,      \* the devices: what cluster each site has, or Absent
          Absent,
          None

Eps   == 1..LastEp
Roles == {"server", "client"}
Sites == Eps \X Roles
Ops   == {"cmd", "check", "hook"}

\* A cluster type, as far as its handling depends on it: does it declare
\* incoming commands, and is one of them set in the initialiser of the
\* device; is there an attribute that can be written and has a validator; a
\* write hook, a function or a class of hooks; a pre_init; is it unique?
Kinds == {k \in [cmds : BOOLEAN, set : BOOLEAN, check : BOOLEAN,
                 hook : {"no", "function", "class"}, pre_init : BOOLEAN,
                 unique : BOOLEAN] : k.set => k.cmds}

ASSUME ClusterAssumption == /\ LastEp \in Nat \ {0}
                            /\ Devices \subseteq [Sites -> Kinds \cup {Absent}]
                            /\ Absent \notin Kinds
                            /\ None \notin Sites \cup Ops

VARIABLES
    device,         \* the device, fixed at compile time
    todo,           \* the clusters still to be initialised
    registered,     \* for each role, whose handlers ZBOSS has
    slots,          \* g_AdditionalClusterHandlers
    overflow,       \* history: g_GlobalErrorHandler was called
    last            \* history: what became of the last call of ZBOSS

vars == <<device, todo, registered, slots, overflow, last>>

Present(d)   == {s \in Sites : d[s] # Absent}
SitesOf(d, role) == {s \in Present(d) : s[2] = role}

-----------------------------------------------------------------------------
(* What is known at compile time *)

\* The handlers a cluster gives to ZBOSS, and those it needs a slot for.
Given(k) == {op \in Ops : \/ op = "cmd" /\ k.set
                          \/ op = "check" /\ k.check
                          \/ op = "hook" /\ k.hook # "no"}
Needs(k) == {op \in Ops : \/ op = "cmd" /\ k.cmds
                          \/ op = "check" /\ k.check
                          \/ op = "hook" /\ k.hook # "no"}
\* slip: only commands make a cluster be initialised.
NeedsInitCommands(k) == k.pre_init \/ k.set
NeedsInit(k) == k.pre_init \/ k.set \/ k.check

\* slip: only clusters with commands are counted.
CountedCommands(d, role) == {s \in SitesOf(d, role) : d[s].cmds}
Counted(d, role) == {s \in SitesOf(d, role) : d[s].cmds \/ d[s].check}
\* How many clusters of the role need a slot: all but one of those counted.
Depth(d, role) == IF Counted(d, role) = {} THEN 0 ELSE Cardinality(Counted(d, role)) - 1

\* check_unique_cluster, a static_assert.
Compiles(d) == \A s \in Present(d) : d[s].unique => Depth(d, s[2]) = 0

\* slip: an array of slots for each set of needs, of any depth.
KeyByNeeds(d, s) == <<Needs(d[s]), 0>>
\* The array of slots a cluster belongs to: the role is not part of it.
Key(d, s) == <<Needs(d[s]), Depth(d, s[2])>>
Keys == (SUBSET Ops) \X (0..LastEp)

\* ZBOSS initialises endpoint by endpoint, servers before clients.
Before(s, t) == s[1] < t[1] \/ (s[1] = t[1] /\ s[2] = "server" /\ t[2] = "client")

-----------------------------------------------------------------------------
Nothing == [op |-> None]

Init ==
    /\ device \in {d \in Devices : Compiles(d)}
    /\ todo = Present(device)
    /\ registered = [role \in Roles |-> None]
    /\ slots = [key \in Keys |-> <<>>]
    /\ overflow = FALSE
    /\ last = Nothing

\* add(): the first slot that is not taken, and what to do with it.
Add(s) ==
    LET key == Key(device, s)
    IN  IF Len(slots[key]) < Depth(device, s[2])
        THEN slots' = [slots EXCEPT ![key] = Append(@, s)] /\ UNCHANGED overflow
        ELSE overflow' = TRUE /\ UNCHANGED slots

\* generic_cluster_init of the next cluster.
InitCluster(s) ==
    /\ s \in todo
    /\ \A t \in todo \ {s} : Before(s, t)
    /\ LET silent == ~NeedsInit(device[s]) \/ Given(device[s]) = {}
       IN  \/ silent /\ UNCHANGED <<registered, slots, overflow>>
           \/ /\ ~silent /\ registered[s[2]] = None
              /\ registered' = [registered EXCEPT ![s[2]] = s]
              /\ UNCHANGED <<slots, overflow>>
           \/ ~silent /\ registered[s[2]] # None /\ Add(s) /\ UNCHANGED registered
    /\ todo' = todo \ {s}
    /\ UNCHANGED <<device, last>>

-----------------------------------------------------------------------------
(* A call of ZBOSS: from its table to the handler that does the work *)

\* find(): the first slot of the endpoint, if there is one.
Found(key, ep) == {i \in 1..Len(slots[key]) :
                      /\ slots[key][i][1] = ep
                      /\ \A j \in 1..(i - 1) : slots[key][j][1] # ep}

By(how, site) == [how |-> how, by |-> site]

\* What a slot's handler does; it may be a null pointer.
InSlot(t, op) == IF op \in Given(device[t]) THEN By("handled", t) ELSE By("null", None)

\* slip: the handlers of the first cluster do the work for all.
RouteToFirst(s, op) ==
    LET r == registered[s[2]]
    IN  IF r = None \/ op \notin Given(device[r]) THEN By("zboss", None) ELSE By("handled", r)
Route(s, op) ==
    LET r == registered[s[2]]
        key == Key(device, r)
    IN  CASE r = None -> By("zboss", None)
          [] r # None /\ op \notin Given(device[r]) -> By("zboss", None)
          [] r # None /\ op \in Given(device[r]) /\ r[1] = s[1] -> By("handled", r)
          [] OTHER -> IF Depth(device, s[2]) = 0
                      THEN By("assert", None)
                      ELSE IF Found(key, s[1]) = {} THEN By("not_found", None)
                           ELSE InSlot(slots[key][CHOOSE i \in Found(key, s[1]) : TRUE], op)

\* call_cmd: is the user's callback called?
Called(known, whole, isSet) == known /\ whole /\ isSet

\* The status after on_cluster_cmd_handling; "" when it was not processed.
CmdStatus(how, known, whole, isSet, result) ==
    CASE how # "handled" -> "not_found"
      [] how = "handled" /\ ~known -> "ok"
      [] how = "handled" /\ known /\ ~isSet -> ""
      [] how = "handled" /\ known /\ isSet /\ ~whole -> "illegal"
      [] OTHER -> result

\* What happens to the buffer: freed, left to the callback, or answered.
Answer(status, disable) ==
    CASE status = "ok" /\ disable -> "freed"
      [] status = "busy" -> "kept"
      [] OTHER -> status

\* Bound: one call after the start.  No call changes a table, so that every
\* call finds what the first one does.
Calling(s) == todo = {} /\ last = Nothing /\ s \in Present(device)

Results == {"ok", "busy", "not_implemented", "error"}

\* A command comes in: one the cluster declares or not, with all of its
\* arguments or not; its callback is set or not and returns what it likes.
Command(s, known, whole, isSet, result, disable) ==
    /\ Calling(s)
    /\ LET to == Route(s, "cmd")
       IN  /\ isSet => to.by # None /\ device[to.by].set
           /\ last' = [op |-> "cmd", to |-> s, how |-> to.how, by |-> to.by,
                       known |-> known, whole |-> whole,
                       ran |-> to.how = "handled" /\ Called(known, whole, isSet),
                       answer |-> IF to.how = "zboss" THEN ""
                                  ELSE Answer(CmdStatus(to.how, known, whole, isSet, result), disable)]
    /\ UNCHANGED <<device, todo, registered, slots, overflow>>

\* An attribute is to be written: it has a validator or not, which accepts
\* the value or not.  RET_BUSY refuses.
CheckValue(s, validated, valid) ==
    /\ Calling(s)
    /\ validated => device[s].check
    /\ LET to == Route(s, "check")
       IN  last' = [op |-> "check", to |-> s, how |-> to.how, by |-> to.by,
                    refusable |-> validated /\ ~valid,
                    accepted |-> \/ to.how = "zboss"
                                 \/ to.how = "handled" /\ (to.by = s /\ validated => valid)]
    /\ UNCHANGED <<device, todo, registered, slots, overflow>>

\* An attribute with a hook was written: a function is called for every
\* write, a hook of a class only if the value could not be read.
WriteHook(s, readable) ==
    /\ Calling(s)
    /\ device[s].hook # "no"
    /\ LET to == Route(s, "hook")
       IN  last' = [op |-> "hook", to |-> s, how |-> to.how, by |-> to.by,
                    readable |-> readable,
                    ran |-> /\ to.how = "handled"
                            /\ device[to.by].hook = "class" => ~readable]
    /\ UNCHANGED <<device, todo, registered, slots, overflow>>

Next ==
    \E s \in Sites :
       \/ InitCluster(s)
       \/ \E known, whole, isSet, disable \in BOOLEAN, result \in Results :
             Command(s, known, whole, isSet, result, disable)
       \/ \E validated, valid \in BOOLEAN : CheckValue(s, validated, valid)
       \/ \E readable \in BOOLEAN : WriteHook(s, readable)

Spec == Init /\ [][Next]_vars

-----------------------------------------------------------------------------
(* Correctness *)

TypeOK ==
    /\ device \in [Sites -> Kinds \cup {Absent}]
    /\ todo \subseteq Sites
    /\ registered \in [Roles -> Sites \cup {None}]
    /\ slots \in [Keys -> Seq(Sites)]
    /\ \A key \in Keys : Len(slots[key]) <= key[2]
    /\ overflow \in BOOLEAN
    /\ last.op \in Ops \cup {None}

\* Devices for which the tables are meant: within a role all clusters are
\* of one kind, which is one that is counted when it gives any handler and
\* sets its commands on every endpoint; and no array of slots belongs to
\* both roles.
Regular(d) ==
    /\ \A s, t \in Present(d) : s[2] = t[2] => d[s] = d[t]
    /\ \A s \in Present(d) : /\ Given(d[s]) # {} => d[s].set \/ d[s].check
                             /\ d[s].set = d[s].cmds
    /\ \A s, t \in Present(d) :
          s[2] # t[2] /\ Depth(d, s[2]) > 0 => Key(d, s) # Key(d, t)

\* After the start every cluster is reached, for everything it gives a
\* handler for, by its own handler.
AllServed == todo = {} => \A s \in Present(device) :
                \A op \in Given(device[s]) : Route(s, op) = By("handled", s)

\* The slots, counted at compile time, are enough for what is put into them
\* at the start, and all of them are used: a slot is never wasted.
SlotsSuffice ==
    /\ ~overflow
    /\ todo = {} => \A s \in Present(device) :
          Given(device[s]) # {} =>
              Len(slots[Key(device, s)]) = Depth(device, s[2])

\* A value that the validator of its attribute refuses is not accepted.
WritesAreChecked == last.op = "check" /\ last.refusable => ~last.accepted

\* A hook sees every value that was written and can be read.
HookSeesWrites == last.op = "hook" /\ last.readable => last.ran
=============================================================================
