----------------------------- MODULE SendQueue ------------------------------
(***************************************************************************)
(* The way of a message to a peer (net.h: BeginMessage, EndMessage; net.cpp: *)
(* SocketSendData, ThreadSocketHandler2): any thread puts a message together *)
(* in ssSend while it holds cs_vSend and appends it to vSendMsg; it is sent  *)
(* at once if nothing is waiting, and what is waiting is left to the socket  *)
(* handler.  The check that ends a connection after 90 minutes without a     *)
(* send is left out: it sends nothing.                                       *)
(***************************************************************************)
EXTENDS Naturals, FiniteSets, SequencesExt

CONSTANTS
    Thread,         \* the threads that call PushMessage()
    NULL,
    MaxSize,        \* bound: bytes of a message
    MaxMessages,    \* bound: messages pushed
    Capacity        \* bytes the socket's buffer holds (external)

VARIABLES
    cs_vSend,       \* the thread that holds the lock, or NULL
    ssSend,         \* the bytes of the message being put together
    vSendMsg,       \* the messages that wait, each a sequence of bytes
    nSendSize, nSendOffset,
    fDisconnect,    \* has the socket been closed?
    fdsetSend,      \* does the socket handler wait for the socket to take more?
    pc,             \* the socket handler: "poll" or "service"
    buffer,         \* the bytes in the socket's buffer
    received,       \* the bytes the peer has read
    nPushed,        \* history: messages begun
    pushed          \* history: the bytes of all the messages that were queued

vars == <<cs_vSend, ssSend, vSendMsg, nSendSize, nSendOffset, fDisconnect, fdsetSend, pc,
          buffer, received, nPushed, pushed>>

Size(queue) == FoldLeft(LAMBDA n, m : n + Len(m), 0, queue)

-----------------------------------------------------------------------------
(* SocketSendData() *)

\* The bytes that send() is still to be called with
Unsent(queue, offset) ==
    LET bytes == FlattenSeq(queue) IN SubSeq(bytes, offset + 1, Len(bytes))

\* How many messages of the queue end within its first n bytes
Complete(queue, n) == Cardinality({i \in 1..Len(queue) : Size(SubSeq(queue, 1, i)) <= n})

\* Mutant: what is left of a message counts no more than its unsent bytes.
SizeAfterBytes(size, queue, nSent) == Size(queue) - nSent

\* nSendSize -= data.size() for every message that has been sent in full
SizeAfter(size, queue, nSent) == size - Size(SubSeq(queue, 1, Complete(queue, nSent)))

\* What the calls of send() may come to: they fill the socket's buffer or empty the
\* queue, or one of them, the first or one for a later message, fails.
Sends(queue) ==
    LET nUnsent == Len(Unsent(queue, nSendOffset))
        room == Min({Capacity - Len(buffer), nUnsent})
        ends == {Size(SubSeq(queue, 1, i)) : i \in 0..(Len(queue) - 1)}
        failed == {n \in 0..room : n = 0 \/ nSendOffset + n \in ends}
    IN  IF fDisconnect
        THEN {[nBytes |-> 0, error |-> TRUE]}
        ELSE {[nBytes |-> room, error |-> FALSE]}
               \cup [nBytes : failed, error : {TRUE}]

\* SocketSendData() on a queue.  The loop ends with the first message that is not sent
\* in full; an error closes the socket.
SocketSendData(queue, size) ==
    \E sent \in Sends(queue) :
        LET nSent == nSendOffset + sent.nBytes
            done == Complete(queue, nSent)
        IN  /\ buffer' = buffer \o SubSeq(Unsent(queue, nSendOffset), 1, sent.nBytes)
            /\ vSendMsg' = SubSeq(queue, done + 1, Len(queue))
            /\ nSendSize' = SizeAfter(size, queue, nSent)
            /\ nSendOffset' = nSent - Size(SubSeq(queue, 1, done))
            /\ fDisconnect' = (fDisconnect \/ sent.error)

-----------------------------------------------------------------------------
(* Actions *)

Init ==
    /\ cs_vSend = NULL /\ ssSend = <<>> /\ vSendMsg = <<>>
    /\ nSendSize = 0 /\ nSendOffset = 0
    /\ fDisconnect = FALSE /\ fdsetSend = FALSE /\ pc = "poll"
    /\ buffer = <<>> /\ received = <<>>
    /\ nPushed = 0 /\ pushed = <<>>

\* BeginMessage(): the lock, and the header
BeginMessage(t) ==
    /\ cs_vSend = NULL
    /\ nPushed < MaxMessages
    /\ cs_vSend' = t
    /\ nPushed' = nPushed + 1
    /\ ssSend' = <<<<nPushed + 1, 1>>>>
    /\ UNCHANGED <<vSendMsg, nSendSize, nSendOffset, fDisconnect, fdsetSend, pc, buffer, received, pushed>>

\* ssSend << ...
Serialize(t) ==
    /\ cs_vSend = t
    /\ Len(ssSend) < MaxSize
    /\ ssSend' = Append(ssSend, <<nPushed, Len(ssSend) + 1>>)
    /\ UNCHANGED <<cs_vSend, vSendMsg, nSendSize, nSendOffset, fDisconnect, fdsetSend, pc, buffer,
                   received, nPushed, pushed>>

\* AbortMessage(), when serialisation throws
AbortMessage(t) ==
    /\ cs_vSend = t
    /\ ssSend' = <<>>
    /\ cs_vSend' = NULL
    /\ UNCHANGED <<vSendMsg, nSendSize, nSendOffset, fDisconnect, fdsetSend, pc, buffer, received,
                   nPushed, pushed>>

\* Mutant: a message is put in front of those that wait.
EnqueueFirst(queue, message) == <<message>> \o queue

\* vSendMsg.insert(vSendMsg.end(), ...)
Enqueue(queue, message) == Append(queue, message)

\* EndMessage(): "If write queue empty, attempt "optimistic write""
EndMessage(t) ==
    /\ cs_vSend = t
    /\ pushed' = pushed \o ssSend
    /\ IF vSendMsg = <<>>
       THEN SocketSendData(Enqueue(vSendMsg, ssSend), nSendSize + Len(ssSend))
       ELSE /\ vSendMsg' = Enqueue(vSendMsg, ssSend)
            /\ nSendSize' = nSendSize + Len(ssSend)
            /\ UNCHANGED <<nSendOffset, fDisconnect, buffer>>
    /\ ssSend' = <<>>
    /\ cs_vSend' = NULL
    /\ UNCHANGED <<fdsetSend, pc, received, nPushed>>

\* ThreadSocketHandler2(): "Find which sockets have data to receive".  TRY_LOCK fails
\* while another thread holds the lock; ssSend is empty when none does.
Poll ==
    /\ pc = "poll"
    /\ fdsetSend' = (~fDisconnect /\ cs_vSend = NULL /\ ssSend # <<>>)
    /\ pc' = "service"
    /\ UNCHANGED <<cs_vSend, ssSend, vSendMsg, nSendSize, nSendOffset, fDisconnect, buffer, received,
                   nPushed, pushed>>

\* ThreadSocketHandler2(): "Send"
Service ==
    /\ pc = "service"
    /\ IF ~fDisconnect /\ fdsetSend /\ cs_vSend = NULL
       THEN SocketSendData(vSendMsg, nSendSize)
       ELSE UNCHANGED <<vSendMsg, nSendSize, nSendOffset, fDisconnect, buffer>>
    /\ pc' = "poll"
    /\ UNCHANGED <<cs_vSend, ssSend, fdsetSend, received, nPushed, pushed>>

\* The peer takes a byte off the socket.
PeerReads ==
    /\ buffer # <<>>
    /\ received' = Append(received, Head(buffer))
    /\ buffer' = Tail(buffer)
    /\ UNCHANGED <<cs_vSend, ssSend, vSendMsg, nSendSize, nSendOffset, fDisconnect, fdsetSend, pc,
                   nPushed, pushed>>

Pushes(t) == BeginMessage(t) \/ Serialize(t) \/ AbortMessage(t) \/ EndMessage(t)
Handler == Poll \/ Service

Next ==
    \/ \E t \in Thread : Pushes(t)
    \/ Handler
    \/ PeerReads

\* A thread finishes the message it has begun, the socket handler loops, the peer reads.
Fairness ==
    /\ \A t \in Thread : WF_vars(EndMessage(t) \/ AbortMessage(t))
    /\ WF_vars(Handler)
    /\ WF_vars(PeerReads)

Spec == Init /\ [][Next]_vars /\ Fairness

-----------------------------------------------------------------------------
(* Properties *)

\* "total size of all vSendMsg entries" and "offset inside the first vSendMsg already
\* sent" (net.h), and with them the assertions of SocketSendData().
SendSizeExact ==
    /\ nSendSize = Size(vSendMsg)
    /\ IF vSendMsg = <<>> THEN nSendOffset = 0 ELSE nSendOffset < Len(Head(vSendMsg))

\* Whatever the socket takes at a time and whichever threads push, the peer gets the
\* bytes of the queued messages, all of them, once and in order.
WireInOrder ==
    LET waiting == FlattenSeq(vSendMsg)
    IN  received \o buffer \o SubSeq(waiting, nSendOffset + 1, Len(waiting)) = pushed

\* "frequency to poll pnode->vSend" (net.cpp): what could not be sent at once is sent
\* when the peer has read what came before it, unless the socket fails.
QueueDrains == vSendMsg # <<>> ~> (vSendMsg = <<>> \/ fDisconnect)
=============================================================================
