------------------------------- MODULE MruSet -------------------------------
(***************************************************************************)
(* mruset<T> (mruset.h): a set that keeps at most nMaxSize elements by      *)
(* remembering, in a queue, the order in which they went in.  Every peer    *)
(* has two of them: the addresses and the inventory it is known to have     *)
(* (net.h).  A bound of 0 means "no bound".                                 *)
(***************************************************************************)
EXTENDS Naturals, Sequences, FiniteSets

CONSTANTS
    T,          \* the elements
    Sizes       \* the bounds a caller passes to max_size()

ASSUME SizesAssumption == Sizes \subseteq Nat

VARIABLES
    set,        \* std::set<T> set
    queue,      \* std::deque<T> queue, oldest first
    nMaxSize    \* size_type nMaxSize

vars == <<set, queue, nMaxSize>>

\* mruset(nMaxSizeIn)
Init ==
    /\ set = {}
    /\ queue = <<>>
    /\ nMaxSize \in Sizes

\* insert() of an element that is already there: std::set refuses it, and its
\* place in the queue is not refreshed.
InsertKnown(x) ==
    /\ x \in set
    /\ UNCHANGED vars

\* Mutant: the bound is compared after the fact.
InsertNewLate(x) ==
    /\ x \notin set
    /\ IF nMaxSize # 0 /\ Len(queue) = nMaxSize + 1
       THEN /\ set' = (set \cup {x}) \ {Head(queue)}
            /\ queue' = Append(Tail(queue), x)
       ELSE /\ set' = set \cup {x}
            /\ queue' = Append(queue, x)
    /\ UNCHANGED nMaxSize

\* insert() of a new element: a full queue first gives up its oldest element.
InsertNew(x) ==
    /\ x \notin set
    /\ IF nMaxSize # 0 /\ Len(queue) = nMaxSize
       THEN /\ set' = (set \cup {x}) \ {Head(queue)}
            /\ queue' = Append(Tail(queue), x)
       ELSE /\ set' = set \cup {x}
            /\ queue' = Append(queue, x)
    /\ UNCHANGED nMaxSize

\* How many elements max_size(s) drops from the front of the queue.
Surplus(s) == IF s # 0 /\ Len(queue) > s THEN Len(queue) - s ELSE 0

\* max_size(s)
SetMaxSize(s) ==
    /\ queue' = SubSeq(queue, Surplus(s) + 1, Len(queue))
    /\ set' = set \ {queue[i] : i \in 1..Surplus(s)}
    /\ nMaxSize' = s

\* clear()
Clear ==
    /\ set' = {}
    /\ queue' = <<>>
    /\ UNCHANGED nMaxSize

Next ==
    \/ \E x \in T : InsertKnown(x) \/ InsertNew(x)
    \/ \E s \in Sizes : SetMaxSize(s)
    \/ Clear

Spec == Init /\ [][Next]_vars

-----------------------------------------------------------------------------

TypeOK ==
    /\ set \subseteq T
    /\ queue \in Seq(T)
    /\ nMaxSize \in Sizes

\* The queue lists the elements of the set, each of them once: whatever
\* sequence of insert, max_size and clear was called, the element evicted next
\* is an element of the set, and no element outlives its place in the queue.
QueueListsSet ==
    /\ set = {queue[i] : i \in 1..Len(queue)}
    /\ \A i, j \in 1..Len(queue) : queue[i] = queue[j] => i = j

\* A bounded mruset never holds more than its bound, even though insert()
\* compares the size of the queue with the bound by equality only.
WithinBound == nMaxSize # 0 => Len(queue) <= nMaxSize

\* A mruset is consistent: its queue lists its elements, and both keep to the bound.
MruSetConsistent == QueueListsSet /\ WithinBound
=============================================================================
