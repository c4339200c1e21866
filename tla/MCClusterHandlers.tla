------------------------- MODULE MCClusterHandlers -------------------------
(***************************************************************************)
(* Devices for the model checking of ClusterHandlers.                      *)
(***************************************************************************)
EXTENDS ClusterHandlers

Kind(commands, check, hook, unique) ==
    [cmds |-> commands, set |-> commands, check |-> check, hook |-> hook,
     pre_init |-> FALSE, unique |-> unique]

\* Every combination of commands and checks, with hooks and without, a
\* unique cluster and one that only holds attributes.
SomeKinds == {Kind(c, v, hook, FALSE) : c \in BOOLEAN, v \in BOOLEAN, hook \in {"no", "class"}}
                \cup {Kind(TRUE, FALSE, "function", TRUE)}

\* Each role with one kind, on any of the endpoints.
RegularDevices ==
    {d \in {[s \in Sites |-> IF s[1] \in where[s[2]] THEN kind[s[2]] ELSE Absent] :
               kind \in [Roles -> SomeKinds], where \in [Roles -> SUBSET Eps]} : Regular(d)}
=============================================================================
