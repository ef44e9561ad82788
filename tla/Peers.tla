-------------------------------- MODULE Peers -------------------------------
(***************************************************************************)
(* The life of a CNode (net.cpp, net.h, sync.h).  Openers make outbound      *)
(* connections, each with a slot of the semaphore semOutbound; the socket    *)
(* handler accepts inbound ones.  The socket handler and the message handler *)
(* work on copies of vNodes whose entries they hold with AddRef().  The      *)
(* socket handler takes closed connections off vNodes and deletes them once  *)
(* no reference is left.  An opener touches its CNode outside cs_vNodes.     *)
(* Bans, local and limited addresses only make an attempt or an accepted     *)
(* connection fail, which may happen here at any time.  Left out: shutdown,  *)
(* and -connect, which opens connections without slots.                      *)
(***************************************************************************)
EXTENDS Integers, FiniteSets

CONSTANTS
    Node,           \* bound: the CNode objects that are ever constructed
    Address,        \* the peers
    NameProxy,      \* HaveNameProxy(): -addnode connects by name
    MaxOutbound,    \* slots of semOutbound
    MaxInbound,     \* -maxconnections less MAX_OUTBOUND_CONNECTIONS
    NULL

ASSUME PeersAssumption ==
    /\ MaxOutbound \in Nat
    /\ MaxInbound \in Nat
    /\ IsFiniteSet(Node)
    /\ NameProxy \in BOOLEAN
    /\ NULL \notin Node
    /\ NULL \notin Address

\* ThreadOpenConnections2() and ThreadOpenAddedConnections2()
Opener == {"connections", "added"}

\* What an opener connects by: addresses of addrman and one-shots, or the -addnode entries.
Kinds(t) == IF t = "connections" THEN {"address", "oneshot"}
            ELSE IF NameProxy THEN {"name"} ELSE {"address"}

VARIABLES
    vNodes,             \* the connections
    vNodesDisconnected, \* taken off vNodes, to be deleted
    going,              \* taken off vNodes by the present pass of the socket handler
    deleted,            \* destroyed objects
    addr, nRefCount,
    fInbound, fNetworkNode, fDisconnect,    \* the objects whose flag is set
    granted,            \* the objects whose grantOutbound holds a slot
    semOutbound,        \* free slots
    socketCopy, messageCopy,    \* vNodesCopy of the two handlers
    socketPc,           \* "disconnect", "delete", "accept" or "service"
    messagePc,          \* "copy" or "service"
    openPc,             \* "idle", "check", "find", "load", "store", "connect", "free",
                        \* "move", "mark" or "oneshot"
    openAddr,           \* the peer an opener connects to
    openKind,           \* "address", "name" or "oneshot" (strDest is a name), or NULL
    openNode,           \* pnode of an opener
    openCount,          \* nRefCount as an opener's AddRef() has read it
    holding,            \* the openers whose own grant holds a slot
    shared,             \* history: objects that ConnectNode()'s look-up returned
    leaked              \* history: objects taken off vNodes without Release()

flags == <<fInbound, fNetworkNode, fDisconnect>>
places == <<vNodes, vNodesDisconnected, going, deleted>>
slots == <<granted, semOutbound, holding>>
socket == <<socketCopy, socketPc>>
message == <<messageCopy, messagePc>>
opener == <<openPc, openAddr, openKind, openNode, openCount>>
vars == <<places, addr, nRefCount, flags, slots, socket, message, opener, shared, leaked>>

Init ==
    /\ vNodes = {} /\ vNodesDisconnected = {} /\ going = {} /\ deleted = {}
    /\ addr = [n \in Node |-> NULL]
    /\ nRefCount = [n \in Node |-> 0]
    /\ fInbound = {} /\ fNetworkNode = {} /\ fDisconnect = {}
    /\ granted = {} /\ semOutbound = MaxOutbound /\ holding = {}
    /\ socketCopy = {} /\ socketPc = "disconnect"
    /\ messageCopy = {} /\ messagePc = "copy"
    /\ openPc = [t \in Opener |-> "idle"]
    /\ openAddr = [t \in Opener |-> NULL]
    /\ openKind = [t \in Opener |-> NULL]
    /\ openNode = [t \in Opener |-> NULL]
    /\ openCount = [t \in Opener |-> 0]
    /\ shared = {} /\ leaked = {}

\* new CNode() returns an object that does not exist yet.
Fresh == Node \ (vNodes \cup vNodesDisconnected \cup going \cup deleted)

AddRef(nodes) == [n \in Node |-> IF n \in nodes THEN nRefCount[n] + 1 ELSE nRefCount[n]]
Release(nodes) == [n \in Node |-> IF n \in nodes THEN nRefCount[n] - 1 ELSE nRefCount[n]]

\* cs_vNodes is held by the socket handler from one half of its pass to the other.
cs_vNodes_free == socketPc # "delete"

-----------------------------------------------------------------------------
(* ThreadSocketHandler2() *)

\* "Disconnect unused nodes".  quiet: the objects with nothing to read or to send.
DisconnectUnused ==
    /\ socketPc = "disconnect"
    /\ \E quiet \in {{}, vNodes} :
        going' = {n \in vNodes : n \in fDisconnect \/ (nRefCount[n] <= 0 /\ n \in quiet)}
    /\ vNodes' = vNodes \ going'
    /\ granted' = granted \ going'
    /\ semOutbound' = semOutbound + Cardinality(granted \cap going')
    /\ fDisconnect' = fDisconnect \cup going'
    /\ socketPc' = "delete"
    /\ UNCHANGED <<vNodesDisconnected, deleted, addr, nRefCount, fInbound, fNetworkNode, holding,
                   socketCopy, message, opener, shared, leaked>>

\* Mutant: the reference of an inbound connection is never given up.
NetworkNodesOnly(nodes) == nodes \cap fNetworkNode

\* if (pnode->fNetworkNode || pnode->fInbound) pnode->Release();
Released(nodes) == nodes \cap (fNetworkNode \cup fInbound)

\* Mutant: an object in the pool is deleted in the next pass, whoever refers to it.
WholePool(pool, count) == pool

\* "wait until threads are done using it"
Unreferenced(pool, count) == {n \in pool : count[n] <= 0}

\* "hold in disconnected pool until all refs are released", "Delete disconnected nodes".
\* The four locks that a deletion tries are free: their holders refer to the object.
DeleteDisconnected ==
    /\ socketPc = "delete"
    /\ LET pool == vNodesDisconnected \cup going
           dead == Unreferenced(pool, Release(Released(going)))
       IN  /\ vNodesDisconnected' = pool \ dead
           /\ deleted' = deleted \cup dead
           /\ granted' = granted \ dead
           /\ semOutbound' = semOutbound + Cardinality(granted \cap dead)
    /\ nRefCount' = Release(Released(going))
    /\ leaked' = leaked \cup (going \ (fNetworkNode \cup fInbound))
    /\ going' = {}
    /\ socketPc' = "accept"
    /\ UNCHANGED <<vNodes, addr, flags, holding, socketCopy, message, opener, shared>>

\* nInbound >= GetArg("-maxconnections", 125) - MAX_OUTBOUND_CONNECTIONS
Room(nInbound) == nInbound < MaxInbound

\* "Accept new connections": there is one from a at one of the listening sockets.
Accept(a) ==
    /\ socketPc = "accept"
    /\ Fresh # {}
    /\ Room(Cardinality(vNodes \cap fInbound))
    /\ LET n == CHOOSE m \in Fresh : TRUE
       IN  /\ vNodes' = vNodes \cup {n}
           /\ addr' = [addr EXCEPT ![n] = a]
           /\ fInbound' = fInbound \cup {n}
           /\ nRefCount' = AddRef({n})
    /\ UNCHANGED <<vNodesDisconnected, going, deleted, fNetworkNode, fDisconnect, slots,
                   socket, message, opener, shared, leaked>>

\* "Service each socket": the copy, after the connections that there were to accept
SocketCopy ==
    /\ socketPc = "accept"
    /\ socketCopy' = vNodes
    /\ nRefCount' = AddRef(vNodes)
    /\ socketPc' = "service"
    /\ UNCHANGED <<places, addr, flags, slots, message, opener, shared, leaked>>

\* CloseSocketDisconnect(), or the flag alone: the peer has closed the connection, the
\* socket fails, there is a flood or there has been no activity.
SocketFails(n) ==
    /\ n \in socketCopy \ fDisconnect
    /\ fDisconnect' = fDisconnect \cup {n}
    /\ UNCHANGED <<places, addr, nRefCount, fInbound, fNetworkNode, slots, socket, message,
                   opener, shared, leaked>>

SocketRelease ==
    /\ socketPc = "service"
    /\ nRefCount' = Release(socketCopy)
    /\ socketCopy' = {}
    /\ socketPc' = "disconnect"
    /\ UNCHANGED <<places, addr, flags, slots, message, opener, shared, leaked>>

-----------------------------------------------------------------------------
(* ThreadMessageHandler2() *)

MessageAddRef(nodes) == AddRef(nodes)

MessageCopy ==
    /\ messagePc = "copy" /\ cs_vNodes_free
    /\ messageCopy' = vNodes
    /\ nRefCount' = MessageAddRef(vNodes)
    /\ messagePc' = "service"
    /\ UNCHANGED <<places, addr, flags, slots, socket, opener, shared, leaked>>

\* ProcessMessages() fails, or Misbehaving() closes the connection.
MessageFails(n) ==
    /\ n \in messageCopy \ fDisconnect
    /\ fDisconnect' = fDisconnect \cup {n}
    /\ UNCHANGED <<places, addr, nRefCount, fInbound, fNetworkNode, slots, socket, message,
                   opener, shared, leaked>>

MessageRelease ==
    /\ messagePc = "service" /\ cs_vNodes_free
    /\ nRefCount' = Release(messageCopy)
    /\ messageCopy' = {}
    /\ messagePc' = "copy"
    /\ UNCHANGED <<places, addr, flags, slots, socket, opener, shared, leaked>>

-----------------------------------------------------------------------------
(* The openers: a grant, then OpenNetworkConnection() *)

openRest == <<places, addr, flags, socket, message, leaked>>

\* CSemaphoreGrant grant(*semOutbound), and a choice of the peer: by address, or by name
\* (one-shots, and -addnode through a name proxy).  Bound: no attempt begins once the
\* objects are used up, or a connection is shared by two openers.
Acquire(t, a, kind) ==
    /\ openPc[t] = "idle" /\ semOutbound > 0
    /\ Fresh # {} /\ shared = {}
    /\ semOutbound' = semOutbound - 1
    /\ holding' = holding \cup {t}
    /\ openPc' = [openPc EXCEPT ![t] = "check"]
    /\ openAddr' = [openAddr EXCEPT ![t] = a]
    /\ openKind' = [openKind EXCEPT ![t] = kind]
    /\ UNCHANGED <<openRest, nRefCount, granted, openNode, openCount, shared>>

\* The opener's grant is destroyed: ~CSemaphoreGrant()
EndAttempt(t) ==
    /\ openPc' = [openPc EXCEPT ![t] = "idle"]
    /\ openAddr' = [openAddr EXCEPT ![t] = NULL]
    /\ openKind' = [openKind EXCEPT ![t] = NULL]
    /\ openNode' = [openNode EXCEPT ![t] = NULL]
    /\ UNCHANGED openCount

GiveUp(t) ==
    /\ EndAttempt(t)
    /\ holding' = holding \ {t}
    /\ semOutbound' = semOutbound + 1
    /\ UNCHANGED <<openRest, nRefCount, granted, shared>>

\* FindNode() of an address finds any connection with that IP; a name is that of an
\* outbound one.
Known(t) ==
    {n \in vNodes : addr[n] = openAddr[t] /\ (openKind[t] # "address" => n \notin fInbound)}

\* The checks of OpenNetworkConnection()
Check(t) ==
    /\ openPc[t] = "check" /\ cs_vNodes_free
    /\ Known(t) = {}
    /\ openPc' = [openPc EXCEPT ![t] = IF openKind[t] = "address" THEN "find" ELSE "connect"]
    /\ UNCHANGED <<openRest, nRefCount, slots, openAddr, openKind, openNode, openCount, shared>>

\* A connection is known, or the peer is banned; there may be no usable address at all.
CheckFails(t) ==
    /\ openPc[t] = "check" /\ cs_vNodes_free
    /\ GiveUp(t)

\* ConnectNode(): "Look for an existing connection".  The port of an inbound one differs.
FindNode(t) ==
    /\ openPc[t] = "find" /\ cs_vNodes_free
    /\ LET found == {n \in vNodes \ fInbound : addr[n] = openAddr[t]}
       IN  \/ /\ found = {}
              /\ openPc' = [openPc EXCEPT ![t] = "connect"]
              /\ UNCHANGED <<openNode, shared>>
           \/ \E n \in found :
                /\ openPc' = [openPc EXCEPT ![t] = "load"]
                /\ openNode' = [openNode EXCEPT ![t] = n]
                /\ shared' = shared \cup {n}
    /\ UNCHANGED <<openRest, nRefCount, slots, openAddr, openKind, openCount>>

\* pnode->AddRef() of the connection found, without cs_vNodes: nRefCount++ reads ...
FoundLoad(t) ==
    /\ openPc[t] = "load"
    /\ openCount' = [openCount EXCEPT ![t] = nRefCount[openNode[t]]]
    /\ openPc' = [openPc EXCEPT ![t] = "store"]
    /\ UNCHANGED <<openRest, nRefCount, slots, openAddr, openKind, openNode, shared>>

\* ... and writes.
FoundStore(t) ==
    /\ openPc[t] = "store"
    /\ nRefCount' = [nRefCount EXCEPT ![openNode[t]] = openCount[t] + 1]
    /\ openCount' = [openCount EXCEPT ![t] = 0]
    /\ openPc' = [openPc EXCEPT ![t] = "free"]
    /\ UNCHANGED <<openRest, slots, openAddr, openKind, openNode, shared>>

\* The socket is connected; closed: the constructor's PushVersion() fails to write to it.
Connect(t) ==
    /\ openPc[t] = "connect" /\ cs_vNodes_free
    /\ Fresh # {}
    /\ LET n == CHOOSE m \in Fresh : TRUE
       IN  /\ vNodes' = vNodes \cup {n}
           /\ addr' = [addr EXCEPT ![n] = openAddr[t]]
           /\ nRefCount' = AddRef({n})
           /\ fDisconnect' \in {fDisconnect, fDisconnect \cup {n}}
           /\ openNode' = [openNode EXCEPT ![t] = n]
    /\ openPc' = [openPc EXCEPT ![t] = "free"]
    /\ UNCHANGED <<vNodesDisconnected, going, deleted, fInbound, fNetworkNode, slots, socket,
                   message, openAddr, openKind, openCount, shared, leaked>>

ConnectFails(t) ==
    /\ openPc[t] = "connect"
    /\ GiveUp(t)

\* grantOutbound->MoveTo(pnode->grantOutbound): grant.Release() ...
MoveToRelease(t) ==
    /\ openPc[t] = "free"
    /\ granted' = granted \ {openNode[t]}
    /\ semOutbound' = semOutbound + (IF openNode[t] \in granted THEN 1 ELSE 0)
    /\ openPc' = [openPc EXCEPT ![t] = "move"]
    /\ UNCHANGED <<openRest, nRefCount, holding, openAddr, openKind, openNode, openCount, shared>>

\* Mutant: the opener's own grant is destroyed with its slot.
KeepsGrant(t) == holding

\* sem = NULL; fHaveGrant = false;
MovedFrom(t) == holding \ {t}

\* grant.sem = sem; grant.fHaveGrant = fHaveGrant;
MovedTo(t) == granted \cup {openNode[t]}

\* ... and the assignments
MoveTo(t) ==
    /\ openPc[t] = "move"
    /\ granted' = MovedTo(t)
    /\ holding' = MovedFrom(t)
    /\ openPc' = [openPc EXCEPT ![t] = "mark"]
    /\ UNCHANGED <<openRest, nRefCount, semOutbound, openAddr, openKind, openNode, openCount,
                   shared>>

\* pnode->fNetworkNode = true; return true, unless fOneShot is still to be set
Mark(t) ==
    /\ openPc[t] = "mark"
    /\ fNetworkNode' = fNetworkNode \cup {openNode[t]}
    /\ \/ /\ openKind[t] # "oneshot"
          /\ EndAttempt(t)
       \/ /\ openKind[t] = "oneshot"
          /\ openPc' = [openPc EXCEPT ![t] = "oneshot"]
          /\ UNCHANGED <<openAddr, openKind, openNode, openCount>>
    /\ UNCHANGED <<places, addr, nRefCount, fInbound, fDisconnect, slots, socket, message,
                   shared, leaked>>

OneShot(t) ==
    /\ openPc[t] = "oneshot"
    /\ EndAttempt(t)
    /\ UNCHANGED <<openRest, nRefCount, slots, shared>>

-----------------------------------------------------------------------------
SocketHandler ==
    \/ DisconnectUnused
    \/ DeleteDisconnected
    \/ \E a \in Address : Accept(a)
    \/ SocketCopy
    \/ SocketRelease

MessageHandler == MessageCopy \/ MessageRelease

OpenStep(t) ==
    \/ Check(t)
    \/ CheckFails(t)
    \/ FindNode(t)
    \/ FoundLoad(t)
    \/ FoundStore(t)
    \/ Connect(t)
    \/ ConnectFails(t)
    \/ MoveToRelease(t)
    \/ MoveTo(t)
    \/ Mark(t)
    \/ OneShot(t)

Next ==
    \/ SocketHandler
    \/ MessageHandler
    \/ \E n \in Node : SocketFails(n) \/ MessageFails(n)
    \/ \E t \in Opener, a \in Address : \E kind \in Kinds(t) : Acquire(t, a, kind)
    \/ \E t \in Opener : OpenStep(t)

Spec == Init /\ [][Next]_vars

\* The handlers' loops go on, whatever the peers do: select() has a timeout, the sockets do
\* not block, and the socket handler is out of cs_vNodes for most of each round, so that
\* the message handler gets it.
FairSpec ==
    Spec /\ WF_vars(DisconnectUnused \/ DeleteDisconnected \/ SocketCopy \/ SocketRelease)
         /\ SF_vars(MessageHandler)

-----------------------------------------------------------------------------
(* Properties *)

OpenPc == {"idle", "check", "find", "load", "store", "connect", "free", "move", "mark", "oneshot"}

\* The types of the state.
TypeOK ==
    /\ vNodes \subseteq Node /\ vNodesDisconnected \subseteq Node
    /\ going \subseteq Node /\ deleted \subseteq Node
    /\ addr \in [Node -> Address \cup {NULL}]
    /\ nRefCount \in [Node -> Int]
    /\ fInbound \subseteq Node /\ fNetworkNode \subseteq Node /\ fDisconnect \subseteq Node
    /\ granted \subseteq Node /\ semOutbound \in Int /\ holding \subseteq Opener
    /\ socketCopy \subseteq Node /\ messageCopy \subseteq Node
    /\ socketPc \in {"disconnect", "delete", "accept", "service"}
    /\ messagePc \in {"copy", "service"}
    /\ openPc \in [Opener -> OpenPc]
    /\ openAddr \in [Opener -> Address \cup {NULL}]
    /\ openKind \in [Opener -> {"address", "name", "oneshot", NULL}]
    /\ openNode \in [Opener -> Node \cup {NULL}]
    /\ openCount \in [Opener -> Int]
    /\ shared \subseteq Node /\ leaked \subseteq Node

\* A handler never holds a destroyed object in its copy ("wait until threads are done using
\* it", net.cpp:844), nor does an opener before it has set fNetworkNode; excepted are the
\* objects that ConnectNode()'s look-up has returned.
NeverDangling ==
    /\ (socketCopy \cup messageCopy) \cap deleted \subseteq shared
    /\ \A t \in Opener : openPc[t] # "oneshot" /\ openNode[t] \in deleted => openNode[t] \in shared

One(n, nodes) == IF n \in nodes THEN 1 ELSE 0

\* nRefCount counts the references: one for each copy that holds the object and one for its
\* place on vNodes, which an object that was closed before fNetworkNode was set never
\* gives up.
RefCountExact ==
    \A n \in Node \ shared :
        nRefCount[n] = One(n, socketCopy) + One(n, messageCopy) + One(n, vNodes \cup going \cup leaked)

\* References are exact, and nobody holds a destroyed object.
ReferencesExact == NeverDangling /\ RefCountExact

\* Slots of semOutbound are neither lost nor made: each is free, an opener's or a
\* connection's, as long as no two openers move their grants to one object.
SlotsConserved ==
    shared = {} => semOutbound + Cardinality(holding) + Cardinality(granted) = MaxOutbound

\* Every outbound connection has a slot of its own, so that there are never more of them
\* than slots: the slot is its own, or still that of the opener that has just made it.
OutboundHasSlot ==
    \A n \in vNodes \ (fInbound \cup shared) :
        n \in granted \/ \E t \in holding : openNode[t] = n

\* net.cpp:968: inbound connections leave room for the outbound ones.
InboundBounded == Cardinality(vNodes \cap fInbound) <= MaxInbound

\* Connections keep to -maxconnections: each outbound one has a slot, slots are neither lost
\* nor made, and inbound ones leave room for them.
ConnectionsWithinLimits == SlotsConserved /\ OutboundHasSlot /\ InboundBounded

\* A closed connection is deleted in the end, unless it was closed before fNetworkNode was
\* set or has been shared.
ClosedDeleted ==
    \A n \in Node : n \in fDisconnect ~> n \in deleted \cup leaked \cup shared

\* Not so: "release outbound grant (if any)" (net.cpp:821) gives back the slot of every closed
\* connection.  A grant that is moved to its connection after this is never released.
SlotReturned == \A n \in Node : n \in fDisconnect ~> n \notin granted

=============================================================================
