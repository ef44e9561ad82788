--------------------------- MODULE PeersSlotProofs ---------------------------
(***************************************************************************)
(* Slots of semOutbound are neither lost nor made, and inbound connections   *)
(* keep to their limit, for any number of connections and of slots.          *)
(***************************************************************************)
EXTENDS PeersProofs, FiniteSetTheorems

USE PeersAssumption DEF flags, places, slots, socket, message, opener, openRest

LEMMA Finite ==
  ASSUME TypeOK
  PROVE  /\ \A S \in SUBSET Node : IsFiniteSet(S) /\ Cardinality(S) \in Nat
         /\ IsFiniteSet(holding) /\ Cardinality(holding) \in Nat
<1>1. \A S \in SUBSET Node : IsFiniteSet(S)
  BY FS_Subset
<1>2. IsFiniteSet(Opener)
  <2>1. Opener = ({} \cup {"connections"}) \cup {"added"}
    BY DEF Opener
  <2> QED  BY <2>1, FS_EmptySet, FS_AddElement
<1>3. IsFiniteSet(holding)
  BY <1>2, FS_Subset DEF TypeOK
<1> QED  BY <1>1, <1>3, FS_CardinalityType

\* Giving back the slots of some objects
LEMMA Returned ==
  ASSUME NEW S \in SUBSET Node, NEW T \in SUBSET Node, TypeOK
  PROVE  Cardinality(S \ T) + Cardinality(S \cap T) = Cardinality(S)
<1>1. Cardinality(S \ T) = Cardinality(S) - Cardinality(S \cap T)
  BY FS_Difference, Finite
<1>2. Cardinality(S) \in Nat /\ Cardinality(S \cap T) \in Nat
  BY Finite
<1> QED  BY <1>1, <1>2

LEMMA SlotsInit == Init => SlotsConserved
BY FS_EmptySet DEF Init, SlotsConserved

LEMMA SlotsNext == Inv /\ SlotsConserved /\ [Next]_vars => SlotsConserved'
<1> SUFFICES ASSUME Inv, SlotsConserved, [Next]_vars, shared' = {}
             PROVE  (semOutbound + Cardinality(holding) + Cardinality(granted) = MaxOutbound)'
  BY DEF SlotsConserved
<1>0. TypeOK /\ Opening /\ Unborn
  BY DEF Inv
<1>1. ASSUME shared = {}, UNCHANGED slots
      PROVE  (semOutbound + Cardinality(holding) + Cardinality(granted) = MaxOutbound)'
  BY <1>1 DEF SlotsConserved
<1>2. CASE DisconnectUnused
  <2>1. going' \subseteq Node
    BY <1>2, <1>0 DEF DisconnectUnused, TypeOK
  <2>2. Cardinality(granted \ going') + Cardinality(granted \cap going') = Cardinality(granted)
    BY <2>1, <1>0, Returned DEF TypeOK
  <2>3. /\ Cardinality(granted \ going') \in Nat /\ Cardinality(granted \cap going') \in Nat
        /\ Cardinality(holding) \in Nat /\ semOutbound \in Int
    BY <1>0, <2>1, Finite DEF TypeOK
  <2>4. /\ semOutbound' = semOutbound + Cardinality(granted \cap going')
        /\ granted' = granted \ going' /\ holding' = holding /\ shared' = shared
    BY <1>2 DEF DisconnectUnused
  <2> QED
    BY <2>2, <2>3, <2>4 DEF SlotsConserved
<1>3. CASE DeleteDisconnected
  <2> DEFINE dead == Unreferenced(vNodesDisconnected \cup going, Release(Released(going)))
  <2>1. dead \subseteq Node
    BY <1>0 DEF TypeOK, Unreferenced
  <2>2. Cardinality(granted \ dead) + Cardinality(granted \cap dead) = Cardinality(granted)
    BY <2>1, <1>0, Returned DEF TypeOK
  <2>3. /\ Cardinality(granted \ dead) \in Nat /\ Cardinality(granted \cap dead) \in Nat
        /\ Cardinality(holding) \in Nat /\ semOutbound \in Int
    BY <1>0, <2>1, Finite DEF TypeOK
  <2>4. /\ semOutbound' = semOutbound + Cardinality(granted \cap dead)
        /\ granted' = granted \ dead /\ holding' = holding /\ shared' = shared
    BY <1>3 DEF DeleteDisconnected
  <2> HIDE DEF dead
  <2> QED
    BY <2>2, <2>3, <2>4 DEF SlotsConserved
<1>4. CASE (\E a \in Address : Accept(a)) \/ SocketCopy \/ SocketRelease \/ MessageHandler
           \/ \E n \in Node : SocketFails(n) \/ MessageFails(n)
  BY <1>1, <1>4 DEF Accept, SocketCopy, SocketRelease, MessageHandler, MessageCopy,
     MessageRelease, SocketFails, MessageFails
<1>5. ASSUME NEW t \in Opener, NEW a \in Address, NEW kind, Acquire(t, a, kind)
      PROVE  (semOutbound + Cardinality(holding) + Cardinality(granted) = MaxOutbound)'
  <2>1. t \notin holding
    BY <1>0, <1>5 DEF Acquire, Opening
  <2>2. Cardinality(holding \cup {t}) = Cardinality(holding) + 1
    BY <2>1, <1>0, Finite, FS_AddElement
  <2>3. Cardinality(holding) \in Nat /\ Cardinality(granted) \in Nat /\ semOutbound \in Int
    BY <1>0, Finite DEF TypeOK
  <2>4. /\ semOutbound' = semOutbound - 1 /\ holding' = holding \cup {t}
        /\ granted' = granted /\ shared' = shared
    BY <1>5 DEF Acquire
  <2> QED
    BY <2>2, <2>3, <2>4 DEF SlotsConserved
<1>6. ASSUME NEW t \in Opener, GiveUp(t), openPc[t] \in {"check", "connect"}
      PROVE  (semOutbound + Cardinality(holding) + Cardinality(granted) = MaxOutbound)'
  <2>1. Cardinality(holding \ {t}) = Cardinality(holding) - 1
    BY <1>0, <1>6, Finite, FS_RemoveElement DEF Opening
  <2>2. Cardinality(holding) \in Nat /\ Cardinality(granted) \in Nat /\ semOutbound \in Int
    BY <1>0, Finite DEF TypeOK
  <2>3. /\ semOutbound' = semOutbound + 1 /\ holding' = holding \ {t}
        /\ granted' = granted /\ shared' = shared
    BY <1>6 DEF GiveUp
  <2> QED
    BY <2>1, <2>2, <2>3 DEF SlotsConserved
<1>7. ASSUME NEW t \in Opener, MoveToRelease(t)
      PROVE  (semOutbound + Cardinality(holding) + Cardinality(granted) = MaxOutbound)'
  <2>1. openNode[t] \notin granted /\ shared = {}
    BY <1>0, <1>7 DEF MoveToRelease, Opening, Working
  <2>2. granted' = granted /\ semOutbound' = semOutbound /\ holding' = holding
    BY <1>0, <1>7, <2>1 DEF MoveToRelease, TypeOK
  <2> QED
    BY <1>1, <2>1, <2>2
<1>8. ASSUME NEW t \in Opener, MoveTo(t)
      PROVE  (semOutbound + Cardinality(holding) + Cardinality(granted) = MaxOutbound)'
  <2>1. openNode[t] \notin granted /\ shared = {} /\ t \in holding
    BY <1>0, <1>8 DEF MoveTo, Opening, Working
  <2>2. Cardinality(holding \ {t}) = Cardinality(holding) - 1
    BY <1>0, <2>1, Finite, FS_RemoveElement
  <2>3. Cardinality(granted \cup {openNode[t]}) = Cardinality(granted) + 1
    BY <1>0, <2>1, Finite, FS_AddElement DEF TypeOK
  <2>4. Cardinality(holding) \in Nat /\ Cardinality(granted) \in Nat /\ semOutbound \in Int
    BY <1>0, Finite DEF TypeOK
  <2> QED
    BY <1>8, <2>1, <2>2, <2>3, <2>4 DEF MoveTo, MovedTo, MovedFrom, SlotsConserved
<1>9. ASSUME NEW t \in Opener,
             \/ Check(t) \/ FindNode(t) \/ FoundLoad(t) \/ FoundStore(t) \/ Connect(t)
             \/ Mark(t) \/ OneShot(t)
      PROVE  (semOutbound + Cardinality(holding) + Cardinality(granted) = MaxOutbound)'
  <2>1. UNCHANGED slots /\ shared \subseteq shared'
    BY <1>9 DEF Check, FindNode, FoundLoad, FoundStore, Connect, Mark, OneShot
  <2> QED  BY <1>1, <2>1
<1>10. CASE UNCHANGED vars
  BY <1>1, <1>10 DEF vars
<1> QED
  BY <1>2, <1>3, <1>4, <1>5, <1>6, <1>7, <1>8, <1>9, <1>10
     DEF Next, SocketHandler, OpenStep, CheckFails, ConnectFails

\* Slots of the semaphore semOutbound are conserved, whatever closes, is deleted or fails to
\* connect in between.
THEOREM SlotsNeitherLostNorMade == Spec => []SlotsConserved
BY SpecInv, SlotsInit, SlotsNext, PTL DEF Spec

LEMMA InboundNext == Inv /\ InboundBounded /\ [Next]_vars => InboundBounded'
<1> SUFFICES ASSUME Inv, InboundBounded, [Next]_vars
             PROVE  InboundBounded'
  OBVIOUS
<1>0. TypeOK /\ Unborn
  BY DEF Inv
<1>1. ASSUME (vNodes \cap fInbound)' \subseteq vNodes \cap fInbound
      PROVE  InboundBounded'
  <2>1. IsFiniteSet(vNodes \cap fInbound) /\ Cardinality(vNodes \cap fInbound) \in Nat
    BY <1>0, Finite DEF TypeOK
  <2>2. /\ Cardinality((vNodes \cap fInbound)') <= Cardinality(vNodes \cap fInbound)
        /\ Cardinality((vNodes \cap fInbound)') \in Nat
    BY <1>1, <2>1, FS_Subset, FS_CardinalityType
  <2> QED  BY <2>1, <2>2 DEF InboundBounded
<1>2. ASSUME NEW a \in Address, Accept(a)
      PROVE  InboundBounded'
  <2> DEFINE n == CHOOSE m \in Fresh : TRUE
             I == vNodes \cap fInbound
  <2>1. n \in Fresh /\ n \notin fInbound
    BY <1>0, <1>2 DEF Accept, Fresh, Unborn, Constructed
  <2>2. (vNodes \cap fInbound)' = I \cup {n}
    BY <1>0, <1>2, <2>1 DEF Accept, Fresh, Unborn, Constructed
  <2>3. Cardinality(I) < MaxInbound
    BY <1>2 DEF Accept, Room
  <2>4. Cardinality(I) \in Nat /\ Cardinality(I \cup {n}) = Cardinality(I) + 1
    BY <1>0, <2>1, Finite, FS_AddElement DEF TypeOK
  <2>5. Cardinality(I \cup {n}) <= MaxInbound
    <3> HIDE DEF n, I
    <3> QED  BY <2>3, <2>4
  <2> QED  BY <2>2, <2>5 DEF InboundBounded
<1>3. ASSUME NEW t \in Opener, Connect(t)
      PROVE  InboundBounded'
  <2>1. (vNodes \cap fInbound)' \subseteq vNodes \cap fInbound
    BY <1>0, <1>3 DEF Connect, Fresh, Unborn, Constructed
  <2> QED  BY <1>1, <2>1
<1>4. CASE DisconnectUnused
  BY <1>1, <1>4 DEF DisconnectUnused
<1>5. ASSUME UNCHANGED <<vNodes, fInbound>>
      PROVE  InboundBounded'
  BY <1>1, <1>5
<1>6. CASE DeleteDisconnected \/ SocketCopy \/ SocketRelease \/ MessageHandler
           \/ (\E n \in Node : SocketFails(n) \/ MessageFails(n)) \/ UNCHANGED vars
  BY <1>5, <1>6 DEF DeleteDisconnected, SocketCopy, SocketRelease, MessageHandler, MessageCopy,
     MessageRelease, SocketFails, MessageFails, vars
<1>7. ASSUME NEW t \in Opener, NEW a \in Address, NEW kind, Acquire(t, a, kind)
      PROVE  InboundBounded'
  BY <1>5, <1>7 DEF Acquire
<1>8. ASSUME NEW t \in Opener, OpenStep(t), ~Connect(t)
      PROVE  InboundBounded'
  BY <1>5, <1>8 DEF OpenStep, Check, CheckFails, ConnectFails, GiveUp, FindNode, FoundLoad,
     FoundStore, MoveToRelease, MoveTo, Mark, OneShot
<1> QED
  BY <1>2, <1>3, <1>4, <1>6, <1>7, <1>8 DEF Next, SocketHandler

\* Inbound connections keep to their share of -maxconnections, though outbound ones come and
\* go between the count and the new entry.
THEOREM InboundWithinLimit == Spec => []InboundBounded
<1>1. Init => InboundBounded
  BY FS_EmptySet DEF Init, InboundBounded
<1> QED
  BY <1>1, SpecInv, InboundNext, PTL DEF Spec

\* Connections keep to -maxconnections: the two theorems above, and OutboundHasSlot.
THEOREM ConnectionsBounded == Spec => []ConnectionsWithinLimits
BY SlotsNeitherLostNorMade, InboundWithinLimit, ReferencesSafe, PTL DEF ConnectionsWithinLimits
=============================================================================
