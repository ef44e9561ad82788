----------------------------- MODULE PeersProofs -----------------------------
(***************************************************************************)
(* References to connections, for any number of connections and of slots.    *)
(* An object that no two openers share is never used after it is destroyed,  *)
(* its count is the number of references to it, and if it is an outbound one *)
(* it has a slot.                                                            *)
(***************************************************************************)
EXTENDS Peers, TLAPS

Constructed == vNodes \cup vNodesDisconnected \cup going \cup deleted

\* An object is in one place, and the two handlers hold what they hold while they work.
Placed ==
    /\ vNodes \cap (vNodesDisconnected \cup going \cup deleted) = {}
    /\ vNodesDisconnected \cap (going \cup deleted) = {}
    /\ going \cap deleted = {}
    /\ socketPc # "delete" => going = {}
    /\ socketPc # "service" => socketCopy = {}
    /\ messagePc # "service" => messageCopy = {}
    /\ leaked \cap (vNodes \cup going) = {}

\* Nothing refers to an object that is not constructed yet.
Unborn ==
    /\ socketCopy \cup messageCopy \cup leaked \cup shared \cup granted \cup fInbound
         \cup fNetworkNode \cup fDisconnect \subseteq Constructed
    /\ \A t \in Opener : openNode[t] \in Constructed \cup {NULL}

\* What an opener has in hand: an object it shares, or one that is its own and whose
\* reference it has not handed over to the socket handler.
Working == {"free", "move", "mark"}
Opening ==
    /\ \A t \in Opener : openPc[t] \in Working \cup {"load", "store"} => openNode[t] # NULL
    /\ \A t \in Opener : openPc[t] \in {"load", "store"} => openNode[t] \in shared
    /\ \A t \in Opener : openPc[t] \in {"idle", "check", "find", "connect"} => openNode[t] = NULL
    /\ \A t \in Opener : t \in holding
          <=> openPc[t] \in {"check", "find", "load", "store", "connect", "free", "move"}
    /\ \A t \in Opener : openPc[t] \in Working /\ openNode[t] \notin shared =>
          /\ openNode[t] \notin fNetworkNode \cup fInbound
          /\ openNode[t] \in vNodes \cup going \cup leaked
          /\ openPc[t] # "mark" => openNode[t] \notin granted
    /\ \A t, u \in Opener : t # u /\ openNode[t] = openNode[u] /\ openNode[t] # NULL
          => openNode[t] \in shared

DeletedUnreferenced == \A n \in deleted \ shared : nRefCount[n] <= 0

\* The inductive invariant.  RefCountExact needs what is known of destroyed objects, and
\* this in turn the exact counts.
Inv ==
    /\ TypeOK
    /\ Placed
    /\ Unborn
    /\ Opening
    /\ RefCountExact
    /\ DeletedUnreferenced
    /\ OutboundHasSlot

-----------------------------------------------------------------------------
(* Every action preserves the invariant *)

USE PeersAssumption DEF flags, places, slots, socket, message, opener, openRest

LEMMA DisconnectUnusedStep ==
  ASSUME Inv, DisconnectUnused
  PROVE  Inv'
<1> USE DEF Inv, DisconnectUnused
<1>1. TypeOK'
  BY DEF TypeOK
<1>2. Placed'
  BY DEF Placed, TypeOK
<1>3. Unborn'
  BY DEF Unborn, Constructed, Placed, TypeOK
<1>4. Opening'
  BY DEF Opening, Working, Unborn, Placed, Constructed, TypeOK
<1>5. RefCountExact'
  BY DEF RefCountExact, One, Placed, TypeOK
<1>6. DeletedUnreferenced'
  BY DEF DeletedUnreferenced
<1>7. OutboundHasSlot'
  BY DEF OutboundHasSlot
<1> QED  BY <1>1, <1>2, <1>3, <1>4, <1>5, <1>6, <1>7

LEMMA DeleteDisconnectedStep ==
  ASSUME Inv, DeleteDisconnected
  PROVE  Inv'
<1> USE DEF Inv, DeleteDisconnected, Unreferenced, Released, Release
<1>1. TypeOK'
  BY DEF TypeOK
<1>2. Placed'
  BY DEF Placed, TypeOK
<1>3. Unborn'
  BY DEF Unborn, Constructed, TypeOK
<1>4. Opening'
  BY DEF Opening, Working
<1>5. RefCountExact'
  BY DEF RefCountExact, One, Placed, TypeOK
<1>6. DeletedUnreferenced'
  BY DEF DeletedUnreferenced, TypeOK
<1>7. OutboundHasSlot'
  BY DEF OutboundHasSlot, Placed, TypeOK
<1> QED  BY <1>1, <1>2, <1>3, <1>4, <1>5, <1>6, <1>7

LEMMA AcceptStep ==
  ASSUME Inv, NEW a \in Address, Accept(a)
  PROVE  Inv'
<1> USE DEF Inv, Accept, AddRef, Fresh
<1>1. TypeOK'
  BY DEF TypeOK
<1>2. Placed'
  BY DEF Placed, Unborn, Constructed, TypeOK
<1>3. Unborn'
  BY DEF Unborn, Constructed, TypeOK
<1>4. Opening'
  BY DEF Opening, Working, Unborn, Constructed, TypeOK
<1>5. RefCountExact'
  BY DEF RefCountExact, One, Placed, Unborn, Constructed, TypeOK
<1>6. DeletedUnreferenced'
  BY DEF DeletedUnreferenced, TypeOK
<1>7. OutboundHasSlot'
  BY DEF OutboundHasSlot
<1> QED  BY <1>1, <1>2, <1>3, <1>4, <1>5, <1>6, <1>7

LEMMA SocketCopyStep ==
  ASSUME Inv, SocketCopy
  PROVE  Inv'
<1> USE DEF Inv, SocketCopy, AddRef
<1>1. TypeOK'
  BY DEF TypeOK
<1>2. Placed'
  BY DEF Placed, TypeOK
<1>3. Unborn'
  BY DEF Unborn, Constructed, TypeOK
<1>4. Opening'
  BY DEF Opening, Working
<1>5. RefCountExact'
  BY DEF RefCountExact, One, Placed, TypeOK
<1>6. DeletedUnreferenced'
  BY DEF DeletedUnreferenced, Placed, TypeOK
<1>7. OutboundHasSlot'
  BY DEF OutboundHasSlot
<1> QED  BY <1>1, <1>2, <1>3, <1>4, <1>5, <1>6, <1>7

LEMMA SocketReleaseStep ==
  ASSUME Inv, SocketRelease
  PROVE  Inv'
<1> USE DEF Inv, SocketRelease, Release
<1>1. TypeOK'
  BY DEF TypeOK
<1>2. Placed'
  BY DEF Placed, TypeOK
<1>3. Unborn'
  BY DEF Unborn, Constructed, TypeOK
<1>4. Opening'
  BY DEF Opening, Working
<1>5. RefCountExact'
  BY DEF RefCountExact, One
<1>6. DeletedUnreferenced'
  BY DEF DeletedUnreferenced, TypeOK
<1>7. OutboundHasSlot'
  BY DEF OutboundHasSlot
<1> QED  BY <1>1, <1>2, <1>3, <1>4, <1>5, <1>6, <1>7

LEMMA MessageCopyStep ==
  ASSUME Inv, MessageCopy
  PROVE  Inv'
<1> USE DEF Inv, MessageCopy, MessageAddRef, AddRef, cs_vNodes_free
<1>1. TypeOK'
  BY DEF TypeOK
<1>2. Placed'
  BY DEF Placed, TypeOK
<1>3. Unborn'
  BY DEF Unborn, Constructed, TypeOK
<1>4. Opening'
  BY DEF Opening, Working
<1>5. RefCountExact'
  BY DEF RefCountExact, One, Placed, TypeOK
<1>6. DeletedUnreferenced'
  BY DEF DeletedUnreferenced, Placed, TypeOK
<1>7. OutboundHasSlot'
  BY DEF OutboundHasSlot
<1> QED  BY <1>1, <1>2, <1>3, <1>4, <1>5, <1>6, <1>7

LEMMA MessageReleaseStep ==
  ASSUME Inv, MessageRelease
  PROVE  Inv'
<1> USE DEF Inv, MessageRelease, Release, cs_vNodes_free
<1>1. TypeOK'
  BY DEF TypeOK
<1>2. Placed'
  BY DEF Placed, TypeOK
<1>3. Unborn'
  BY DEF Unborn, Constructed, TypeOK
<1>4. Opening'
  BY DEF Opening, Working
<1>5. RefCountExact'
  BY DEF RefCountExact, One
<1>6. DeletedUnreferenced'
  BY DEF DeletedUnreferenced, TypeOK
<1>7. OutboundHasSlot'
  BY DEF OutboundHasSlot
<1> QED  BY <1>1, <1>2, <1>3, <1>4, <1>5, <1>6, <1>7

LEMMA SocketFailsStep ==
  ASSUME Inv, NEW m \in Node, SocketFails(m)
  PROVE  Inv'
<1> USE DEF Inv, SocketFails
<1>1. TypeOK'
  BY DEF TypeOK
<1>2. Placed'
  BY DEF Placed, TypeOK
<1>3. Unborn'
  BY DEF Unborn, Constructed, TypeOK
<1>4. Opening'
  BY DEF Opening, Working
<1>5. RefCountExact'
  BY DEF RefCountExact, One
<1>6. DeletedUnreferenced'
  BY DEF DeletedUnreferenced
<1>7. OutboundHasSlot'
  BY DEF OutboundHasSlot
<1> QED  BY <1>1, <1>2, <1>3, <1>4, <1>5, <1>6, <1>7

LEMMA MessageFailsStep ==
  ASSUME Inv, NEW m \in Node, MessageFails(m)
  PROVE  Inv'
<1> USE DEF Inv, MessageFails
<1>1. TypeOK'
  BY DEF TypeOK
<1>2. Placed'
  BY DEF Placed, TypeOK
<1>3. Unborn'
  BY DEF Unborn, Constructed, TypeOK
<1>4. Opening'
  BY DEF Opening, Working
<1>5. RefCountExact'
  BY DEF RefCountExact, One
<1>6. DeletedUnreferenced'
  BY DEF DeletedUnreferenced
<1>7. OutboundHasSlot'
  BY DEF OutboundHasSlot
<1> QED  BY <1>1, <1>2, <1>3, <1>4, <1>5, <1>6, <1>7

LEMMA AcquireStep ==
  ASSUME Inv, NEW t \in Opener, NEW a \in Address, NEW kind \in {"address", "name", "oneshot"},
     Acquire(t, a, kind)
  PROVE  Inv'
<1> USE DEF Inv, Acquire
<1>1. TypeOK'
  BY DEF TypeOK, OpenPc
<1>2. Placed'
  BY DEF Placed, TypeOK
<1>3. Unborn'
  BY DEF Unborn, Constructed, TypeOK
<1>4. Opening'
  BY DEF Opening, Working, TypeOK
<1>5. RefCountExact'
  BY DEF RefCountExact, One
<1>6. DeletedUnreferenced'
  BY DEF DeletedUnreferenced
<1>7. OutboundHasSlot'
  BY DEF OutboundHasSlot
<1> QED  BY <1>1, <1>2, <1>3, <1>4, <1>5, <1>6, <1>7

LEMMA CheckStep ==
  ASSUME Inv, NEW t \in Opener, Check(t)
  PROVE  Inv'
<1> USE DEF Inv, Check
<1>1. TypeOK'
  BY DEF TypeOK, OpenPc
<1>2. Placed'
  BY DEF Placed, TypeOK
<1>3. Unborn'
  BY DEF Unborn, Constructed, TypeOK
<1>4. Opening'
  BY DEF Opening, Working
<1>5. RefCountExact'
  BY DEF RefCountExact, One
<1>6. DeletedUnreferenced'
  BY DEF DeletedUnreferenced
<1>7. OutboundHasSlot'
  BY DEF OutboundHasSlot
<1> QED  BY <1>1, <1>2, <1>3, <1>4, <1>5, <1>6, <1>7

LEMMA CheckFailsStep ==
  ASSUME Inv, NEW t \in Opener, CheckFails(t)
  PROVE  Inv'
<1> USE DEF Inv, CheckFails, GiveUp, EndAttempt
<1>1. TypeOK'
  BY DEF TypeOK, OpenPc
<1>2. Placed'
  BY DEF Placed, TypeOK
<1>3. Unborn'
  BY DEF Unborn, Constructed, TypeOK
<1>4. Opening'
  BY DEF Opening, Working, TypeOK
<1>5. RefCountExact'
  BY DEF RefCountExact, One
<1>6. DeletedUnreferenced'
  BY DEF DeletedUnreferenced
<1>7. OutboundHasSlot'
  BY DEF OutboundHasSlot, Opening, Working, TypeOK
<1> QED  BY <1>1, <1>2, <1>3, <1>4, <1>5, <1>6, <1>7

LEMMA FindNodeStep ==
  ASSUME Inv, NEW t \in Opener, FindNode(t)
  PROVE  Inv'
<1> USE DEF Inv, FindNode
<1>1. TypeOK'
  BY DEF TypeOK, OpenPc
<1>2. Placed'
  BY DEF Placed, TypeOK
<1>3. Unborn'
  BY DEF Unborn, Constructed, TypeOK
<1>4. Opening'
  BY DEF Opening, Working, TypeOK
<1>5. RefCountExact'
  BY DEF RefCountExact, One
<1>6. DeletedUnreferenced'
  BY DEF DeletedUnreferenced
<1>7. OutboundHasSlot'
  BY DEF OutboundHasSlot, Opening, Working, TypeOK
<1> QED  BY <1>1, <1>2, <1>3, <1>4, <1>5, <1>6, <1>7

LEMMA FoundLoadStep ==
  ASSUME Inv, NEW t \in Opener, FoundLoad(t)
  PROVE  Inv'
<1> USE DEF Inv, FoundLoad
<1>1. TypeOK'
  BY DEF TypeOK, OpenPc, Opening, Working
<1>2. Placed'
  BY DEF Placed, TypeOK
<1>3. Unborn'
  BY DEF Unborn, Constructed, TypeOK
<1>4. Opening'
  BY DEF Opening, Working
<1>5. RefCountExact'
  BY DEF RefCountExact, One
<1>6. DeletedUnreferenced'
  BY DEF DeletedUnreferenced
<1>7. OutboundHasSlot'
  BY DEF OutboundHasSlot
<1> QED  BY <1>1, <1>2, <1>3, <1>4, <1>5, <1>6, <1>7

LEMMA FoundStoreStep ==
  ASSUME Inv, NEW t \in Opener, FoundStore(t)
  PROVE  Inv'
<1> USE DEF Inv, FoundStore
<1>1. TypeOK'
  BY DEF TypeOK, OpenPc, Opening, Working
<1>2. Placed'
  BY DEF Placed, TypeOK
<1>3. Unborn'
  BY DEF Unborn, Constructed, TypeOK
<1>4. Opening'
  BY DEF Opening, Working
<1>5. RefCountExact'
  BY DEF RefCountExact, One, Placed, Unborn, Constructed, Opening, Working, TypeOK
<1>6. DeletedUnreferenced'
  BY DEF DeletedUnreferenced, RefCountExact, One, Placed, Unborn, Constructed, Opening, Working,
     TypeOK
<1>7. OutboundHasSlot'
  BY DEF OutboundHasSlot
<1> QED  BY <1>1, <1>2, <1>3, <1>4, <1>5, <1>6, <1>7

LEMMA ConnectStep ==
  ASSUME Inv, NEW t \in Opener, Connect(t)
  PROVE  Inv'
<1> USE DEF Inv, Connect, AddRef, Fresh
<1>1. TypeOK'
  BY DEF TypeOK, OpenPc
<1>2. Placed'
  BY DEF Placed, Unborn, Constructed, TypeOK
<1>3. Unborn'
  BY DEF Unborn, Constructed, TypeOK
<1>4. Opening'
  BY DEF Opening, Working, Unborn, Constructed, TypeOK
<1>5. RefCountExact'
  BY DEF RefCountExact, One, Placed, Unborn, Constructed, TypeOK
<1>6. DeletedUnreferenced'
  BY DEF DeletedUnreferenced, TypeOK
<1>7. OutboundHasSlot'
  BY DEF OutboundHasSlot, Opening, Working, TypeOK
<1> QED  BY <1>1, <1>2, <1>3, <1>4, <1>5, <1>6, <1>7

LEMMA ConnectFailsStep ==
  ASSUME Inv, NEW t \in Opener, ConnectFails(t)
  PROVE  Inv'
<1> USE DEF Inv, ConnectFails, GiveUp, EndAttempt
<1>1. TypeOK'
  BY DEF TypeOK, OpenPc
<1>2. Placed'
  BY DEF Placed, TypeOK
<1>3. Unborn'
  BY DEF Unborn, Constructed, TypeOK
<1>4. Opening'
  BY DEF Opening, Working, TypeOK
<1>5. RefCountExact'
  BY DEF RefCountExact, One
<1>6. DeletedUnreferenced'
  BY DEF DeletedUnreferenced
<1>7. OutboundHasSlot'
  BY DEF OutboundHasSlot, Opening, Working, TypeOK
<1> QED  BY <1>1, <1>2, <1>3, <1>4, <1>5, <1>6, <1>7

LEMMA MoveToReleaseStep ==
  ASSUME Inv, NEW t \in Opener, MoveToRelease(t)
  PROVE  Inv'
<1> USE DEF Inv, MoveToRelease
<1>1. TypeOK'
  BY DEF TypeOK, OpenPc
<1>2. Placed'
  BY DEF Placed, TypeOK
<1>3. Unborn'
  BY DEF Unborn, Constructed, TypeOK
<1>4. Opening'
  BY DEF Opening, Working
<1>5. RefCountExact'
  BY DEF RefCountExact, One
<1>6. DeletedUnreferenced'
  BY DEF DeletedUnreferenced
<1>7. OutboundHasSlot'
  BY DEF OutboundHasSlot, Opening, Working, TypeOK
<1> QED  BY <1>1, <1>2, <1>3, <1>4, <1>5, <1>6, <1>7

LEMMA MoveToStep ==
  ASSUME Inv, NEW t \in Opener, MoveTo(t)
  PROVE  Inv'
<1> USE DEF Inv, MoveTo, MovedTo, MovedFrom
<1>1. TypeOK'
  BY DEF TypeOK, OpenPc, Opening, Working
<1>2. Placed'
  BY DEF Placed, TypeOK
<1>3. Unborn'
  BY DEF Unborn, Constructed, Opening, Working, TypeOK
<1>4. Opening'
  BY DEF Opening, Working, TypeOK
<1>5. RefCountExact'
  BY DEF RefCountExact, One
<1>6. DeletedUnreferenced'
  BY DEF DeletedUnreferenced
<1>7. OutboundHasSlot'
  BY DEF OutboundHasSlot
<1> QED  BY <1>1, <1>2, <1>3, <1>4, <1>5, <1>6, <1>7

LEMMA MarkStep ==
  ASSUME Inv, NEW t \in Opener, Mark(t)
  PROVE  Inv'
<1> USE DEF Inv, Mark, EndAttempt
<1>1. TypeOK'
  BY DEF TypeOK, OpenPc, Opening, Working
<1>2. Placed'
  BY DEF Placed, TypeOK
<1>3. Unborn'
  BY DEF Unborn, Constructed, Opening, Working, TypeOK
<1>4. Opening'
  BY DEF Opening, Working, TypeOK
<1>5. RefCountExact'
  BY DEF RefCountExact, One
<1>6. DeletedUnreferenced'
  BY DEF DeletedUnreferenced
<1>7. OutboundHasSlot'
  BY DEF OutboundHasSlot, Opening, Working, TypeOK
<1> QED  BY <1>1, <1>2, <1>3, <1>4, <1>5, <1>6, <1>7

LEMMA OneShotStep ==
  ASSUME Inv, NEW t \in Opener, OneShot(t)
  PROVE  Inv'
<1> USE DEF Inv, OneShot, EndAttempt
<1>1. TypeOK'
  BY DEF TypeOK, OpenPc
<1>2. Placed'
  BY DEF Placed, TypeOK
<1>3. Unborn'
  BY DEF Unborn, Constructed, TypeOK
<1>4. Opening'
  BY DEF Opening, Working, TypeOK
<1>5. RefCountExact'
  BY DEF RefCountExact, One
<1>6. DeletedUnreferenced'
  BY DEF DeletedUnreferenced
<1>7. OutboundHasSlot'
  BY DEF OutboundHasSlot, Opening, Working, TypeOK
<1> QED  BY <1>1, <1>2, <1>3, <1>4, <1>5, <1>6, <1>7

-----------------------------------------------------------------------------
(* Init and Next *)

LEMMA InitInv == Init => Inv
BY DEF Init, Inv, TypeOK, OpenPc, Placed, Unborn, Constructed, Opening, Working,
   RefCountExact, One, DeletedUnreferenced, OutboundHasSlot

LEMMA NextInv == Inv /\ [Next]_vars => Inv'
<1> SUFFICES ASSUME Inv, [Next]_vars
             PROVE  Inv'
  OBVIOUS
<1>1. CASE SocketHandler
  BY <1>1, DisconnectUnusedStep, DeleteDisconnectedStep, AcceptStep, SocketCopyStep,
     SocketReleaseStep DEF SocketHandler
<1>2. CASE MessageHandler
  BY <1>2, MessageCopyStep, MessageReleaseStep DEF MessageHandler
<1>3. CASE \E n \in Node : SocketFails(n) \/ MessageFails(n)
  BY <1>3, SocketFailsStep, MessageFailsStep
<1>4. CASE \E t \in Opener, a \in Address : \E kind \in Kinds(t) : Acquire(t, a, kind)
  BY <1>4, AcquireStep DEF Kinds
<1>5. ASSUME NEW t \in Opener, OpenStep(t)
      PROVE  Inv'
  BY <1>5, CheckStep, CheckFailsStep, FindNodeStep, FoundLoadStep, FoundStoreStep, ConnectStep,
     ConnectFailsStep, MoveToReleaseStep, MoveToStep, MarkStep, OneShotStep DEF OpenStep
<1>6. CASE UNCHANGED vars
  BY <1>6 DEF vars, Inv, TypeOK, Placed, Unborn,
     Constructed, Opening, RefCountExact, DeletedUnreferenced, OutboundHasSlot, One
<1> QED
  BY <1>1, <1>2, <1>3, <1>4, <1>5, <1>6 DEF Next

\* The inductive invariant holds in every state of the nodes.
LEMMA SpecInv == Spec => []Inv
BY InitInv, NextInv, PTL DEF Spec

\* References are counted exactly, and every outbound node has its slot.  What a handler
\* has in its copy or an opener has just connected exists, however their steps, the
\* deletions and the openers' unlocked writes interleave.
THEOREM ReferencesSafe == Spec => [](ReferencesExact /\ OutboundHasSlot)
<1>1. Inv => NeverDangling
  <2> SUFFICES ASSUME Inv
               PROVE  NeverDangling
    OBVIOUS
  <2>1. \A n \in deleted \ shared :
            n \notin socketCopy \cup messageCopy \cup vNodes \cup going \cup leaked
    BY DEF Inv, RefCountExact, DeletedUnreferenced, One, TypeOK
  <2>2. ASSUME NEW t \in Opener, openPc[t] # "oneshot", openNode[t] \in deleted
        PROVE  openNode[t] \in shared
    BY <2>1, <2>2 DEF Inv, Opening, Working, TypeOK, OpenPc
  <2> QED
    BY <2>1, <2>2 DEF NeverDangling, Inv, TypeOK
<1>2. Inv => ReferencesExact /\ OutboundHasSlot
  BY <1>1 DEF Inv, ReferencesExact
<1> QED
  BY <1>2, SpecInv, PTL
=============================================================================
