---------------------------- MODULE MruSetProofs ----------------------------
(***************************************************************************)
(* The set and the queue of an mruset agree, and its bound is respected,    *)
(* for every element type and every bound.                                  *)
(***************************************************************************)
EXTENDS MruSet, TLAPS

Inv == TypeOK /\ QueueListsSet /\ WithinBound

LEMMA InitInv == Init => Inv
<1> SUFFICES ASSUME Init PROVE Inv
  OBVIOUS
<1>1. Len(queue) = 0 /\ queue \in Seq(T)
  BY DEF Init
<1>2. 1..Len(queue) = {}
  BY <1>1
<1> QED BY <1>1, <1>2, SizesAssumption
        DEF Init, Inv, TypeOK, QueueListsSet, WithinBound

LEMMA InsertNewInv ==
  ASSUME Inv, NEW x \in T, InsertNew(x)
  PROVE  Inv'
<1> USE SizesAssumption DEF Inv, TypeOK, QueueListsSet, WithinBound
<1>1. CASE nMaxSize # 0 /\ Len(queue) = nMaxSize
  <2>1. /\ set' = (set \cup {x}) \ {Head(queue)}
        /\ queue' = Append(Tail(queue), x)
        /\ nMaxSize' = nMaxSize
        /\ x \notin set
    BY <1>1 DEF InsertNew
  <2>2. Len(queue) \in Nat /\ Len(queue) > 0
    BY <1>1
  <2>3. /\ Len(queue') = Len(queue)
        /\ \A i \in 1..Len(queue) :
              queue'[i] = IF i = Len(queue) THEN x ELSE queue[i + 1]
        /\ queue' \in Seq(T)
    BY <2>1, <2>2
  <2>4. Head(queue) = queue[1]
    BY <2>2
  <2>5. set' = {queue'[i] : i \in 1..Len(queue')}
    <3>1. ASSUME NEW y \in set' PROVE \E i \in 1..Len(queue') : y = queue'[i]
      <4>1. CASE y = x
        BY <4>1, <2>2, <2>3
      <4>2. CASE y # x
        <5>1. PICK i \in 1..Len(queue) : y = queue[i]
          BY <4>2, <2>1
        <5>2. i # 1
          BY <5>1, <2>1, <2>4
        <5>3. (i - 1) \in 1..Len(queue) /\ y = queue'[i - 1]
          BY <5>1, <5>2, <2>2, <2>3
        <5> QED BY <5>3, <2>3
      <4> QED BY <4>1, <4>2
    <3>2. ASSUME NEW i \in 1..Len(queue') PROVE queue'[i] \in set'
      <4>1. CASE i = Len(queue)
        BY <4>1, <2>1, <2>2, <2>3, <2>4
      <4>2. CASE i # Len(queue)
        <5>1. i + 1 \in 1..Len(queue) /\ i + 1 # 1 /\ queue'[i] = queue[i + 1]
          BY <4>2, <2>2, <2>3
        <5>2. 1 \in 1..Len(queue)
          BY <2>2
        <5>3. queue[i + 1] # queue[1]
          BY <5>1, <5>2
        <5> QED BY <5>1, <5>3, <2>1, <2>4
      <4> QED BY <4>1, <4>2
    <3> QED BY <3>1, <3>2
  <2>6. \A i, j \in 1..Len(queue') : queue'[i] = queue'[j] => i = j
    <3> SUFFICES ASSUME NEW i \in 1..Len(queue'), NEW j \in 1..Len(queue'),
                        queue'[i] = queue'[j]
                 PROVE  i = j
      OBVIOUS
    <3>1. \A m \in 1..Len(queue') :
             m # Len(queue) => m + 1 \in 1..Len(queue) /\ queue'[m] = queue[m + 1]
      BY <2>2, <2>3
    <3>2. \A m \in 1..Len(queue') : m # Len(queue) => queue'[m] # x
      BY <3>1, <2>1
    <3>3. CASE i = Len(queue) \/ j = Len(queue)
      BY <3>2, <3>3, <2>3
    <3>4. CASE i # Len(queue) /\ j # Len(queue)
      <4>1. i + 1 = j + 1
        BY <3>1, <3>4
      <4> QED BY <4>1, <2>3
    <3> QED BY <3>3, <3>4
  <2> QED BY <1>1, <2>1, <2>3, <2>5, <2>6
<1>2. CASE ~(nMaxSize # 0 /\ Len(queue) = nMaxSize)
  <2>1. /\ set' = set \cup {x}
        /\ queue' = Append(queue, x)
        /\ nMaxSize' = nMaxSize
        /\ x \notin set
    BY <1>2 DEF InsertNew
  <2>2. /\ Len(queue) \in Nat
        /\ Len(queue') = Len(queue) + 1
        /\ \A i \in 1..Len(queue) : queue'[i] = queue[i]
        /\ queue'[Len(queue) + 1] = x
        /\ queue' \in Seq(T)
    BY <2>1
  <2>3. set' = {queue'[i] : i \in 1..Len(queue')}
    BY <2>1, <2>2
  <2>4. \A i, j \in 1..Len(queue') : queue'[i] = queue'[j] => i = j
    BY <2>1, <2>2
  <2>5. WithinBound'
    BY <1>2, <2>1, <2>2
  <2> QED BY <2>1, <2>2, <2>3, <2>4, <2>5
<1> QED BY <1>1, <1>2

LEMMA SetMaxSizeInv ==
  ASSUME Inv, NEW s \in Sizes, SetMaxSize(s)
  PROVE  Inv'
<1> USE SizesAssumption DEF Inv, TypeOK, QueueListsSet, WithinBound
<1> DEFINE k == Surplus(s)
<1>1. k \in Nat /\ k <= Len(queue) /\ Len(queue) \in Nat
  BY DEF Surplus
<1>2. s # 0 => Len(queue) - k <= s
  BY DEF Surplus
<1>3. /\ queue' = SubSeq(queue, k + 1, Len(queue))
      /\ set' = set \ {queue[i] : i \in 1..k}
      /\ nMaxSize' = s
  BY DEF SetMaxSize
<1> HIDE DEF k
<1>4. /\ queue' \in Seq(T)
      /\ Len(queue') = Len(queue) - k
      /\ \A i \in 1..(Len(queue) - k) : queue'[i] = queue[i + k]
  BY <1>1, <1>3
<1>5. set' = {queue'[i] : i \in 1..Len(queue')}
  <2>1. ASSUME NEW y \in set' PROVE \E i \in 1..Len(queue') : y = queue'[i]
    <3>1. PICK i \in 1..Len(queue) : y = queue[i] /\ i \notin 1..k
      BY <1>3
    <3>2. (i - k) \in 1..(Len(queue) - k) /\ y = queue'[i - k]
      BY <3>1, <1>1, <1>4
    <3> QED BY <3>2, <1>4
  <2>2. ASSUME NEW i \in 1..Len(queue') PROVE queue'[i] \in set'
    <3>1. i + k \in 1..Len(queue) /\ i + k \notin 1..k /\ queue'[i] = queue[i + k]
      BY <1>1, <1>4
    <3> QED BY <3>1, <1>1, <1>3
  <2> QED BY <2>1, <2>2
<1>6. \A i, j \in 1..Len(queue') : queue'[i] = queue'[j] => i = j
  <2> SUFFICES ASSUME NEW i \in 1..Len(queue'), NEW j \in 1..Len(queue'),
                      queue'[i] = queue'[j]
               PROVE  i = j
    OBVIOUS
  <2>1. /\ i + k \in 1..Len(queue) /\ queue'[i] = queue[i + k]
        /\ j + k \in 1..Len(queue) /\ queue'[j] = queue[j + k]
    BY <1>1, <1>4
  <2>2. i + k = j + k
    BY <2>1
  <2> QED BY <2>2, <1>1, <1>4
<1> QED BY <1>2, <1>3, <1>4, <1>5, <1>6, <1>1

\* Whatever sequence of insert(), max_size() and clear() is called, the queue
\* lists the elements of the set, each once, and a bounded mruset keeps to its
\* bound.
THEOREM MruSetCorrect == Spec => [](TypeOK /\ MruSetConsistent)
<1>1. Inv /\ [Next]_vars => Inv'
  <2> SUFFICES ASSUME Inv, [Next]_vars PROVE Inv'
    OBVIOUS
  <2>1. ASSUME NEW x \in T, InsertKnown(x) PROVE Inv'
    BY <2>1 DEF InsertKnown, vars, Inv, TypeOK, QueueListsSet, WithinBound
  <2>2. ASSUME NEW x \in T, InsertNew(x) PROVE Inv'
    BY <2>2, InsertNewInv
  <2>3. ASSUME NEW s \in Sizes, SetMaxSize(s) PROVE Inv'
    BY <2>3, SetMaxSizeInv
  <2>4. CASE Clear
    <3>1. Len(queue') = 0 /\ queue' \in Seq(T) /\ set' = {} /\ nMaxSize' = nMaxSize
      BY <2>4 DEF Clear
    <3>2. 1..Len(queue') = {}
      BY <3>1
    <3> QED BY <3>1, <3>2, SizesAssumption
            DEF Inv, TypeOK, QueueListsSet, WithinBound
  <2>5. CASE UNCHANGED vars
    BY <2>5 DEF vars, Inv, TypeOK, QueueListsSet, WithinBound
  <2> QED BY <2>1, <2>2, <2>3, <2>4, <2>5 DEF Next
<1>2. Inv => TypeOK /\ MruSetConsistent
  BY DEF Inv, MruSetConsistent
<1> QED BY InitInv, <1>1, <1>2, PTL DEF Spec
=============================================================================
