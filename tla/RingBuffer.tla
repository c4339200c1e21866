----------------------------- MODULE RingBuffer -----------------------------
(***************************************************************************)
(* ring_buffer_t of tools/zbm_ring_buffer.hpp: an array whose size is a    *)
(* power of two, and two indices into it.  The cell of m_Tail is the last  *)
(* that was written, the one after m_Head the next to be read, so one cell *)
(* is always free.  Elements are constructed in the cells and destroyed    *)
(* there by the buffer itself.                                             *)
(*                                                                         *)
(* A definition marked "slip" is a mistake the code could have made, kept  *)
(* beside what it would break; nothing of the specification uses it.       *)
(***************************************************************************)
EXTENDS Naturals, Sequences

CONSTANTS Sizes,     \* the template arguments N
          IndexMod,  \* the values of size_type_t: 256, or 65536
          Values,
          Dead       \* a cell without an element

\* size_type_t(1) << (kHighestBit + 1): the power of two above n, converted to
\* the type of the indices.
kBufSize(n) ==
    (CHOOSE p \in {2 ^ i : i \in 1..n} : n < p /\ p <= 2 * n) % IndexMod

\* For 128 to 255 elements an 8-bit size is 0 instead of 256.
ASSUME RingAssumption == /\ Sizes \subseteq Nat \ {0}
                         /\ \A n \in Sizes : kBufSize(n) \in Nat /\ kBufSize(n) > n
                         /\ Dead \notin Values

VARIABLES N, m_Buf, m_Head, m_Tail,
          result    \* history: what the last operation returned

vars == <<N, m_Buf, m_Head, m_Tail, result>>

Cells == 0..(kBufSize(N) - 1)

\* i & kMask, kMask being one less than a power of two.
Masked(i) == i % kBufSize(N)

\* The cell after a cell.
After(i) == Masked(i + 1)

Init == /\ N \in Sizes
        /\ m_Buf = [c \in Cells |-> Dead]
        /\ m_Head = 0
        /\ m_Tail = 0
        /\ result = <<"none">>

IsEmpty == m_Tail = m_Head

\* slip: two cells are kept free.
HasRoomForTwo == After(After(m_Tail)) # m_Head
HasRoom == After(m_Tail) # m_Head

size == Masked(m_Tail + kBufSize(N) - m_Head)

Push(v) ==
    LET newTail == After(m_Tail)
    IN  /\ HasRoom
        /\ m_Tail' = newTail
        /\ m_Buf' = [m_Buf EXCEPT ![newTail] = v]
        /\ result' = <<"pushed", Masked(kBufSize(N) + newTail - m_Head)>>
        /\ UNCHANGED <<N, m_Head>>

PushIsRefused ==
    /\ ~HasRoom
    /\ result' = <<"refused">>
    /\ UNCHANGED <<N, m_Buf, m_Head, m_Tail>>

\* slip: the cleanup sees the head as it was.
DestroysAtOldHead(head) == m_Buf' = [m_Buf EXCEPT ![m_Head] = Dead]
Destroys(head) == m_Buf' = [m_Buf EXCEPT ![head] = Dead]

\* The element is copied for the caller and destroyed in its cell after that.
Pop ==
    LET head == After(m_Head)
    IN  /\ ~IsEmpty
        /\ m_Head' = head
        /\ result' = <<"popped", m_Buf[head]>>
        /\ Destroys(head)
        /\ UNCHANGED <<N, m_Tail>>

Drop ==
    LET head == After(m_Head)
    IN  /\ ~IsEmpty
        /\ m_Head' = head
        /\ result' = <<"dropped">>
        /\ Destroys(head)
        /\ UNCHANGED <<N, m_Tail>>

\* pop, drop and peek of an empty buffer.
FindsEmpty ==
    /\ IsEmpty
    /\ result' = <<"empty">>
    /\ UNCHANGED <<N, m_Buf, m_Head, m_Tail>>

Peek ==
    /\ ~IsEmpty
    /\ result' = <<"peeked", m_Buf[After(m_Head)]>>
    /\ UNCHANGED <<N, m_Buf, m_Head, m_Tail>>

AskSize ==
    /\ result' = <<"size", IF IsEmpty THEN 0 ELSE size>>
    /\ UNCHANGED <<N, m_Buf, m_Head, m_Tail>>

\* From begin() until the iterator is end().
Iterate ==
    /\ result' = <<"visited", [i \in 1..size |-> m_Buf[Masked(m_Head + i)]]>>
    /\ UNCHANGED <<N, m_Buf, m_Head, m_Tail>>

Next == \/ \E v \in Values : Push(v)
        \/ PushIsRefused \/ Pop \/ Drop \/ FindsEmpty \/ Peek \/ AskSize \/ Iterate

Spec == Init /\ [][Next]_vars
-----------------------------------------------------------------------------
TypeOK == /\ N \in Sizes
          /\ m_Buf \in [Cells -> Values \cup {Dead}]
          /\ m_Head \in Cells
          /\ m_Tail \in Cells

\* The cells between the indices hold an element, all others none: an element
\* is destroyed once, by pop or drop, and never written over alive.
Live == {Masked(m_Head + i) : i \in 1..size}
ElementsLive == \A c \in Cells : m_Buf[c] # Dead <=> c \in Live

Queue == [i \in 1..size |-> m_Buf[Masked(m_Head + i)]]
F == INSTANCE Fifo WITH Room <- N, queue <- Queue

\* The buffer is a queue that takes at least N elements (push, pop, drop, peek,
\* size and the iterator agree on what is in it and in which order).
ImplementsFifo == F!Spec
=============================================================================
