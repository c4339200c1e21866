--------------------------- MODULE FixedFunction ---------------------------
(***************************************************************************)
(* fixed_function_t of tools/zbm_function.hpp, in which extended timers    *)
(* and alarms (impl/zbm_alarm.hpp) keep their callback: a storage, and the *)
(* table and the invoker of the type of what is in it.  Nothing in the     *)
(* storage is ever destroyed, so the memory of a callable is written over  *)
(* and what it owned is lost.                                              *)
(*                                                                         *)
(* The user does what the code leaves to him: he assigns only from objects *)
(* that are not empty, copies only what can be copied, and invokes only    *)
(* what has not been moved away, which operator bool does not tell.        *)
(***************************************************************************)
CONSTANTS Functions, \* the objects of the class
          Plain,     \* pointers to functions
          Functors,  \* functors, each of a type of its own
          MoveOnly,  \* those of them that cannot be copied
          Nothing

Callables == Plain \cup Functors

VARIABLES m_Storage,
          m_pTable,   \* the type in the storage: its table and its invoker
          called,     \* history: the last invocation
          holds       \* history: what was assigned last and not moved away

functionVars == <<m_Storage, m_pTable, called, holds>>

\* The constructors: the table of a pointer, or of the functor's own type.
GetVTableFor(c) == IF c \in Plain THEN "v_PlainFunc" ELSE c

FunctionInit ==
    /\ m_Storage = [f \in Functions |-> Nothing]
    /\ m_pTable = [f \in Functions |-> Nothing]
    /\ called = Nothing
    /\ holds = [f \in Functions |-> Nothing]

\* f = callable: a temporary is made of it and moved into f.
AssignCallable(f, c) ==
    /\ m_Storage' = [m_Storage EXCEPT ![f] = c]
    /\ m_pTable' = [m_pTable EXCEPT ![f] = GetVTableFor(c)]
    /\ holds' = [holds EXCEPT ![f] = c]
    /\ UNCHANGED called

\* slip: the table stays that of what was in the storage before.
CopiesStorageOnly(f, g) == UNCHANGED m_pTable
TakesTable(f, g) == m_pTable' = [m_pTable EXCEPT ![f] = m_pTable[g]]

AssignCopy(f, g) ==
    /\ m_pTable[g] \notin MoveOnly \cup {Nothing}
    /\ TakesTable(f, g)
    /\ m_Storage' = [m_Storage EXCEPT ![f] = m_Storage[g]]
    /\ holds' = [holds EXCEPT ![f] = holds[g]]
    /\ UNCHANGED called

\* A pointer that is moved away is null and a functor is empty, but the table
\* of g stays.
AssignMove(f, g) ==
    /\ f # g
    /\ m_pTable[g] # Nothing
    /\ TakesTable(f, g)
    /\ m_Storage' = [m_Storage EXCEPT ![f] = m_Storage[g], ![g] = Nothing]
    /\ holds' = [holds EXCEPT ![f] = holds[g], ![g] = Nothing]
    /\ UNCHANGED called

\* The invoker takes what is in the storage for its own type.
Invoke(f) ==
    /\ holds[f] # Nothing
    /\ called' = [ran |-> m_Storage[f], as |-> m_pTable[f], meant |-> holds[f]]
    /\ UNCHANGED <<m_Storage, m_pTable, holds>>

FunctionNext ==
    \E f \in Functions : \/ \E c \in Callables : AssignCallable(f, c)
                         \/ \E g \in Functions : AssignCopy(f, g) \/ AssignMove(f, g)
                         \/ Invoke(f)

FunctionSpec == FunctionInit /\ [][FunctionNext]_functionVars
-----------------------------------------------------------------------------
\* An invocation runs the callable that was assigned last, wherever it was
\* copied or moved from, and takes it for nothing else (operator=, operator()).
RunsWhatWasAssigned ==
    called # Nothing => called.ran = called.meant /\ called.as = GetVTableFor(called.meant)
=============================================================================
