--------------------------- MODULE SyncCheckpoint ---------------------------
(***************************************************************************)
(* Synchronised checkpoints (checkpoints.cpp) beside the block index and the *)
(* best chain: the checkpoint a master key signs is adopted when its block   *)
(* is known, kept pending otherwise, and decides which blocks AcceptBlock()  *)
(* lets in (mode STRICT, the default).  The node may stop between any two    *)
(* commits.  SetBestChain() is one step here; BestChain.tla has its steps.    *)
(***************************************************************************)
EXTENDS BlockTree, FiniteSets

CONSTANTS
    BadBlocks,          \* the sets of blocks ConnectBlock() refuses to consider
    Hardened,           \* mapCheckpoints: blocks of one chain, the genesis block among them
    Signed,             \* the blocks the master key signs as checkpoints
    StaticPending,      \* the initial value of hashPendingCheckpoint, or NULL
    MaxCrashes          \* how often the node stops

ASSUME HardenedAssumption ==
    /\ Genesis \in Hardened /\ Hardened \subseteq Block
    /\ \A a, b \in Hardened : a \in Chain(b) \/ b \in Chain(a)

VARIABLES
    BadBlock,               \* the blocks ConnectBlock() refuses
    pc,                     \* where the node is
    mapBlockIndex, pindexBest,
    hashSyncCheckpoint, hashPendingCheckpoint, hashInvalidCheckpoint,
    pindexNew,              \* the block being added
    hashCheckpoint,         \* the checkpoint being adopted
    dskIndex, dskBest, dskSync, \* disk: block index, hashBestChain, hashSyncCheckpoint
    dskPubKey,              \* disk: strCheckpointPubKey is the "old" or the "new" one
    signer,                 \* history: the key under which dskSync was adopted
    crashes,
    stale                   \* history: the blocks memory took for best that were not connected

memory == <<mapBlockIndex, pindexBest, hashSyncCheckpoint, hashPendingCheckpoint,
            hashInvalidCheckpoint>>
vars == <<BadBlock, pc, memory, pindexNew, hashCheckpoint, dskIndex, dskBest, dskSync, dskPubKey, signer,
          crashes, stale>>

-----------------------------------------------------------------------------
(* SetBestChain() *)

Valid(b) == Chain(b) \cap BadBlock = {}

\* The blocks IsInMainChain() is true of when the chain up to disk is connected and
\* pindexBest is mem: pnext is set for the connected ones, the last one aside.
MainChain(disk, mem) == (Chain(disk) \ {disk}) \cup {mem}
IsInMainChain(b) == b \in MainChain(dskBest, pindexBest)

\* The block Reorganize() leads to on the way to n: the first whose predecessor has
\* no more trust than the best block
Intermediate(n) ==
    CHOOSE i \in Chain(n) \ {Genesis} :
        /\ nChainTrust[pprev(i)] <= nChainTrust[pindexBest]
        /\ \A a \in Chain(n) : Len(a) > Len(i) => nChainTrust[pprev(a)] > nChainTrust[pindexBest]

\* The last block up to n that can be connected
LastValid(n) ==
    CHOOSE v \in Chain(n) : Valid(v) /\ \A a \in Chain(n) : Len(a) > Len(v) => ~Valid(a)

\* What SetBestChain() can do for a block n that is not in the main chain: the block
\* the disk then leads to, or NULL when it fails.  "errors now are not fatal" for the
\* blocks after the intermediate one.  When memory and disk have come apart so, the
\* tx index is not that of pindexBest and anything can come of the next call.
SetBestChainOutcomes(n) ==
    IF pindexBest # dskBest THEN Chain(n) \cup {NULL}
    ELSE IF Valid(IF pprev(n) = pindexBest THEN n ELSE Intermediate(n)) THEN {LastValid(n)}
    ELSE {NULL}

\* SetBestChain() has succeeded.
NewBestChain(n, d) ==
    /\ d # NULL
    /\ pindexBest' = n /\ dskBest' = d
    /\ stale' = stale \cup ({n} \ {d})

KeepBestChain == UNCHANGED <<pindexBest, dskBest, stale>>

-----------------------------------------------------------------------------
(* Checkpoints *)

\* The ancestor of b at the height of a, found by walking pprev
TraceBack(b, a) == SubSeq(b, 1, Len(a))

\* CheckHardened(): at the height of a hardened checkpoint there is only that block.
CheckHardened(b) == \A h \in Hardened : Len(h) = Len(b) => h = b

\* Mutant: whatever is higher than the checkpoint
CheckSyncHigher(b) == Len(b) > Len(hashSyncCheckpoint)

\* CheckSync() of a block that is not in the index
CheckSync(b) ==
    /\ Len(b) > Len(hashSyncCheckpoint) =>
          TraceBack(pprev(b), hashSyncCheckpoint) = hashSyncCheckpoint
    /\ Len(b) = Len(hashSyncCheckpoint) => b = hashSyncCheckpoint
    /\ Len(b) < Len(hashSyncCheckpoint) => b \in mapBlockIndex

\* Is h of a branch that the current checkpoint is not on?
Conflicting(h) ==
    IF Len(h) <= Len(hashSyncCheckpoint)
    THEN TraceBack(hashSyncCheckpoint, h) # h
    ELSE TraceBack(h, hashSyncCheckpoint) # hashSyncCheckpoint

\* Mutant: any other checkpoint of the branch will do.
ValidateAnyHeight(h) == {hashSyncCheckpoint, h} \subseteq mapBlockIndex /\ ~Conflicting(h)

\* ValidateSyncCheckpoint(): "only descendant of current sync-checkpoint is allowed"
ValidateSyncCheckpoint(h) ==
    /\ {hashSyncCheckpoint, h} \subseteq mapBlockIndex
    /\ Len(h) > Len(hashSyncCheckpoint)
    /\ ~Conflicting(h)

-----------------------------------------------------------------------------
(* Actions *)

\* An earlier version of the program, with the old key, has left this on the disk.
Init ==
    /\ BadBlock \in BadBlocks
    /\ pc = "down" /\ crashes = 0 /\ stale = {}
    /\ dskBest \in {b \in Block : Valid(b)}
    /\ \E x \in Block : /\ nChainTrust[x] <= nChainTrust[dskBest]
                       /\ dskIndex = Chain(dskBest) \cup Chain(x)
    /\ dskSync \in Chain(dskBest)
    /\ dskPubKey = "old" /\ signer = "old"
    /\ mapBlockIndex = {} /\ pindexBest = NULL
    /\ hashSyncCheckpoint = NULL /\ hashPendingCheckpoint = NULL
    /\ hashInvalidCheckpoint = NULL
    /\ pindexNew = NULL /\ hashCheckpoint = NULL

\* LoadBlockIndex(), up to the check of the checkpoint master key
LoadBlockIndex ==
    /\ pc = "down"
    /\ mapBlockIndex' = dskIndex
    /\ pindexBest' = dskBest
    /\ hashSyncCheckpoint' = dskSync
    /\ hashPendingCheckpoint' = StaticPending
    /\ hashInvalidCheckpoint' = NULL
    /\ pc' = IF dskPubKey = "new" THEN "idle" ELSE "key"
    /\ UNCHANGED <<pindexNew, hashCheckpoint, dskIndex, dskBest, dskSync, dskPubKey, signer,
                   crashes, stale>>

\* "write checkpoint master key to db"
WriteCheckpointPubKey ==
    /\ pc = "key"
    /\ dskPubKey' = "new"
    /\ pc' = "reset"
    /\ UNCHANGED <<memory, pindexNew, hashCheckpoint, dskIndex, dskBest, dskSync, signer, crashes, stale>>

\* The last of the hardened checkpoints in H
Last(H) == CHOOSE h \in H : \A k \in H : Len(k) <= Len(h)

\* ResetSyncCheckpoint(): the last hardened checkpoint is brought into the main chain,
\* or is pending.
ResetSyncCheckpoint ==
    /\ pc = "reset"
    /\ IF Last(Hardened) \in mapBlockIndex
       THEN /\ UNCHANGED hashPendingCheckpoint
            /\ IF IsInMainChain(Last(Hardened)) THEN KeepBestChain
               ELSE \E d \in SetBestChainOutcomes(Last(Hardened)) : NewBestChain(Last(Hardened), d)
       ELSE hashPendingCheckpoint' = Last(Hardened) /\ KeepBestChain
    /\ pc' = "write hardened"
    /\ UNCHANGED <<mapBlockIndex, hashSyncCheckpoint, hashInvalidCheckpoint, pindexNew,
                   hashCheckpoint, dskIndex, dskSync, dskPubKey, signer, crashes>>

\* ... "reset synchronized checkpoint to last hardened checkpoint" of the main chain
WriteHardened ==
    /\ pc = "write hardened"
    /\ dskSync' = Last({h \in Hardened : IsInMainChain(h)})
    /\ hashSyncCheckpoint' = dskSync'
    /\ signer' = "new"
    /\ pc' = "idle"
    /\ UNCHANGED <<mapBlockIndex, pindexBest, hashPendingCheckpoint, hashInvalidCheckpoint,
                   pindexNew, hashCheckpoint, dskIndex, dskBest, dskPubKey, crashes, stale>>

\* SetBestChain() fails for the hardened checkpoint: the node does not start.
ResetFails ==
    /\ pc = "reset"
    /\ Last(Hardened) \in mapBlockIndex /\ ~IsInMainChain(Last(Hardened))
    /\ NULL \in SetBestChainOutcomes(Last(Hardened))
    /\ pc' = "down"
    /\ UNCHANGED <<memory, pindexNew, hashCheckpoint, dskIndex, dskBest, dskSync, dskPubKey, signer,
                   crashes, stale>>

WriteBlockIndex(b) == dskIndex' = dskIndex \cup {b}

\* AcceptBlock(), up to the commit of the block index in AddToBlockIndex()
AcceptBlock(b) ==
    /\ pc = "idle"
    /\ b \notin mapBlockIndex /\ pprev(b) \in mapBlockIndex
    /\ CheckHardened(b)
    /\ CheckSync(b)
    /\ mapBlockIndex' = mapBlockIndex \cup {b}
    /\ WriteBlockIndex(b)
    /\ pindexNew' = b
    /\ pc' = "new best"
    /\ UNCHANGED <<pindexBest, hashSyncCheckpoint, hashPendingCheckpoint, hashInvalidCheckpoint,
                   hashCheckpoint, dskBest, dskSync, dskPubKey, signer, crashes, stale>>

\* The rest of AddToBlockIndex(): AcceptBlock() goes on when it returns true.
NewBest ==
    /\ pc = "new best"
    /\ IF nChainTrust[pindexNew] <= nChainTrust[pindexBest]
       THEN KeepBestChain /\ pc' = "pending"
       ELSE \E d \in SetBestChainOutcomes(pindexNew) :
               \/ NewBestChain(pindexNew, d) /\ pc' = "pending"
               \/ d = NULL /\ KeepBestChain /\ pc' = "idle"
    /\ UNCHANGED <<mapBlockIndex, hashSyncCheckpoint, hashPendingCheckpoint,
                   hashInvalidCheckpoint, pindexNew, hashCheckpoint, dskIndex, dskSync,
                   dskPubKey, signer, crashes>>

\* The checkpoint h, which is in the index and has passed ValidateSyncCheckpoint(),
\* is brought into the main chain, to be written then.
Adopt(h) ==
    IF IsInMainChain(h)
    THEN /\ pc' = "write" /\ hashCheckpoint' = h
         /\ KeepBestChain /\ UNCHANGED hashInvalidCheckpoint
    ELSE \E d \in SetBestChainOutcomes(h) :
            \/ /\ NewBestChain(h, d)
               /\ pc' = "write" /\ hashCheckpoint' = h
               /\ UNCHANGED hashInvalidCheckpoint
            \/ /\ d = NULL /\ KeepBestChain
               /\ pc' = "idle" /\ hashInvalidCheckpoint' = h
               /\ UNCHANGED hashCheckpoint

\* AcceptPendingSyncCheckpoint(), up to WriteSyncCheckpoint()
AcceptPendingSyncCheckpoint ==
    /\ pc = "pending"
    /\ IF hashPendingCheckpoint \notin mapBlockIndex
       THEN pc' = "idle" /\ KeepBestChain
            /\ UNCHANGED <<hashPendingCheckpoint, hashInvalidCheckpoint, hashCheckpoint>>
       ELSE IF ValidateSyncCheckpoint(hashPendingCheckpoint)
       THEN Adopt(hashPendingCheckpoint) /\ UNCHANGED hashPendingCheckpoint
       ELSE /\ pc' = "idle" /\ KeepBestChain
            /\ hashPendingCheckpoint' = NULL
            /\ hashInvalidCheckpoint' = IF Conflicting(hashPendingCheckpoint)
                                        THEN hashPendingCheckpoint ELSE hashInvalidCheckpoint
            /\ UNCHANGED hashCheckpoint
    /\ UNCHANGED <<mapBlockIndex, hashSyncCheckpoint, pindexNew, dskIndex, dskSync, dskPubKey, signer,
                   crashes>>

\* ProcessSyncCheckpoint(), up to WriteSyncCheckpoint()
ProcessSyncCheckpoint(h) ==
    /\ pc = "idle"
    /\ IF h \notin mapBlockIndex
       THEN /\ hashPendingCheckpoint' = h
            /\ pc' = "idle" /\ KeepBestChain
            /\ UNCHANGED <<hashInvalidCheckpoint, hashCheckpoint>>
       ELSE IF ValidateSyncCheckpoint(h)
       THEN Adopt(h) /\ UNCHANGED hashPendingCheckpoint
       ELSE /\ pc' = "idle" /\ KeepBestChain
            /\ hashInvalidCheckpoint' = IF Conflicting(h) THEN h ELSE hashInvalidCheckpoint
            /\ UNCHANGED <<hashPendingCheckpoint, hashCheckpoint>>
    /\ UNCHANGED <<mapBlockIndex, hashSyncCheckpoint, pindexNew, dskIndex, dskSync, dskPubKey, signer,
                   crashes>>

\* WriteSyncCheckpoint(), and nothing is pending any more
WriteSyncCheckpoint ==
    /\ pc = "write"
    /\ dskSync' = hashCheckpoint /\ hashSyncCheckpoint' = hashCheckpoint
    /\ signer' = "new"
    /\ hashPendingCheckpoint' = NULL
    /\ pc' = "idle"
    /\ UNCHANGED <<mapBlockIndex, pindexBest, hashInvalidCheckpoint, pindexNew, hashCheckpoint,
                   dskIndex, dskBest, dskPubKey, crashes, stale>>

\* The node stops.
Crash ==
    /\ pc # "down" /\ crashes < MaxCrashes
    /\ pc' = "down" /\ crashes' = crashes + 1
    /\ UNCHANGED <<memory, pindexNew, hashCheckpoint, dskIndex, dskBest, dskSync, dskPubKey, signer, stale>>

Step ==
    \/ LoadBlockIndex
    \/ WriteCheckpointPubKey
    \/ ResetSyncCheckpoint
    \/ WriteHardened
    \/ ResetFails
    \/ \E b \in Block \ {Genesis} : AcceptBlock(b)
    \/ NewBest
    \/ AcceptPendingSyncCheckpoint
    \/ \E h \in Signed : ProcessSyncCheckpoint(h)
    \/ WriteSyncCheckpoint
    \/ Crash

Next == Step /\ UNCHANGED BadBlock

Spec == Init /\ [][Next]_vars

-----------------------------------------------------------------------------
(* Properties *)

\* "sync-checkpoint should always be accepted block" (asserted by CheckSync() and
\* IsMatureSyncCheckpoint()), also after a restart.
SyncCheckpointAccepted ==
    /\ pc # "down" => hashSyncCheckpoint \in mapBlockIndex
    /\ dskSync \in dskIndex

\* The best chain goes through the sync-checkpoint, once this version of the program
\* has adopted one (KeyChangeResets is about a start that is interrupted before that)
\* and as long as memory has taken no block for best that was not connected.
BestChainHasCheckpoint ==
    pc \in {"idle", "pending"} /\ signer = "new" /\ stale = {} =>
        hashSyncCheckpoint \in Chain(pindexBest)

\* The checkpoint is an accepted block, and the best chain goes through it.
CheckpointOnChain == SyncCheckpointAccepted /\ BestChainHasCheckpoint

\* Once the node is running, a checkpoint is replaced by a descendant of it only,
\* whatever order checkpoints and blocks arrive in and however often it restarts.
CheckpointAdvances ==
    [][pc # "write hardened" => dskSync \in Chain(dskSync')]_vars

\* A block that is stored while there is a checkpoint descends from it: "only
\* descendant of sync-checkpoint can pass check".
StoredBlocksDescend ==
    [][\A b \in dskIndex' \ dskIndex : hashSyncCheckpoint \in Chain(b)]_vars

\* The checkpoint binds: it moves forward only, and what is stored descends from it.
CheckpointBinds == CheckpointAdvances /\ StoredBlocksDescend

\* "if checkpoint master key changed must reset sync-checkpoint": a node that runs
\* with the new key has a hardened checkpoint or one that the new key signed.
KeyChangeResets ==
    pc \in {"idle", "pending"} => signer = "new" \/ hashSyncCheckpoint \in Hardened
=============================================================================
