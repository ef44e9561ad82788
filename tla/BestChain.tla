----------------------------- MODULE BestChain ------------------------------
(***************************************************************************)
(* How a node keeps its best chain (main.cpp, txdb-leveldb.cpp): the block  *)
(* index in memory, its copy on disk, and SetBestChain(), which moves the   *)
(* best chain to a block of greater trust in several database transactions. *)
(* cs_main is held from AcceptBlock() to the end of SetBestChain(), so the  *)
(* only thing that can come between two of those transactions is the end of *)
(* the process; LoadBlockIndex() then rebuilds memory from disk.            *)
(*                                                                          *)
(* Transactions are abstracted here: a block is in ValidBlock when          *)
(* ConnectBlock() accepts it on top of the chain that ends in its           *)
(* predecessor.  Module TxIndex models ConnectBlock() and DisconnectBlock() *)
(* on transactions and shows that this depends on the block's chain only.   *)
(***************************************************************************)
EXTENDS BlockTree

CONSTANTS
    ValidBlock,     \* the blocks ConnectBlock() accepts on their own chain
    MaxCrashes      \* how often the process may end (bound)

ASSUME ValidAssumption == ValidBlock \subseteq Block /\ Genesis \in ValidBlock
ASSUME CrashAssumption == MaxCrashes \in Nat

VARIABLES
    mapBlockIndex,  \* memory: the blocks in the index
    pnext,          \* memory: CBlockIndex::pnext of every block
    pindexBest,     \* memory: with hashBestChain, nBestHeight, nBestChainTrust
    dskIndex,       \* disk: the blocks with a "blockindex" record
    dskNext,        \* disk: CDiskBlockIndex::hashNext of every block
    dskBest,        \* disk: "hashBestChain"
    dskConnected,   \* disk: the blocks whose transactions are in the tx index
    pc,             \* where SetBestChain() is, between two commits
    pindexNew,      \* the block SetBestChain() was called for
    pindexTip,      \* the last block SetBestChain() has connected
    nBestInvalidTrust,  \* memory and disk: the greatest trust that failed
    dskWalletBest,  \* wallet.dat: the block its "bestblock" locator names
    crashes,        \* how often the process has ended
    stale           \* history: the blocks memory took for its best block when the loop
                    \* over the further blocks had broken off before them

memory == <<mapBlockIndex, pnext, pindexBest>>
disk == <<dskIndex, dskNext, dskBest, dskConnected>>
control == <<pc, pindexNew, pindexTip>>
vars == <<memory, disk, control, nBestInvalidTrust, dskWalletBest, crashes, stale>>

\* The node has just created its block index: only the genesis block, whose
\* transactions SetBestChain() does not connect; dskConnected counts it anyway.
Init ==
    /\ mapBlockIndex = {Genesis}
    /\ pnext = [b \in Block |-> NULL]
    /\ pindexBest = Genesis
    /\ dskIndex = {Genesis}
    /\ dskNext = [b \in Block |-> NULL]
    /\ dskBest = Genesis
    /\ dskConnected = {Genesis}
    /\ pc = "idle"
    /\ pindexNew = NULL
    /\ pindexTip = NULL
    /\ nBestInvalidTrust = 0
    /\ dskWalletBest = Genesis
    /\ crashes = 0
    /\ stale = {}

-----------------------------------------------------------------------------
(* Links.  Both Reorganize() in memory and its batch on disk first unlink    *)
(* the disconnected blocks, then link the connected ones.                    *)

\* Mutant: the disconnected blocks stay linked.
RelinkKeepsOld(next, vDisconnect, vConnect) ==
    [b \in Block |->
        IF \E c \in vConnect : c # Genesis /\ pprev(c) = b
        THEN CHOOSE c \in vConnect : c # Genesis /\ pprev(c) = b
        ELSE next[b]]

\* The pnext of every block after the loops at the end of Reorganize()
Relink(next, vDisconnect, vConnect) ==
    [b \in Block |->
        IF \E c \in vConnect : c # Genesis /\ pprev(c) = b
        THEN CHOOSE c \in vConnect : c # Genesis /\ pprev(c) = b
        ELSE IF \E d \in vDisconnect : d # Genesis /\ pprev(d) = b
        THEN NULL
        ELSE next[b]]

\* hashNext on disk: ConnectBlock() also writes each connected block itself,
\* with the pnext that memory still has for it, before the next one links to it.
RelinkOnDisk(vDisconnect, vConnect) ==
    Relink([b \in Block |-> IF b \in vConnect THEN pnext[b] ELSE dskNext[b]],
           vDisconnect, vConnect)

\* Can ConnectBlock(b) succeed?  On the tx index of b's own chain the answer is
\* ValidBlock; on any other tx index it can be either.
ConnectOutcomes(b) ==
    IF dskConnected = Chain(pprev(b)) THEN {b \in ValidBlock} ELSE BOOLEAN

\* Mutant: the result of ConnectBlock() is not looked at.
ReorganizeUnchecked(b) == {TRUE}

\* Reorganize() from pindexBest to b
ReorganizeOutcomes(b) ==
    IF dskConnected = Chain(pindexBest)
    THEN {Chain(b) \ Chain(pindexBest) \subseteq ValidBlock}
    ELSE BOOLEAN

\* Mutant: the walk goes on to the first block of the new branch.
IsIntermediateAtFork(a, b) ==
    /\ a \in Chain(b) \ Chain(pindexBest)
    /\ pprev(a) \in Chain(pindexBest)

\* a is where the walk along pprev from b ends, the first block of b's chain that
\* has more trust than pindexBest, or b itself
IsIntermediate(a, b) ==
    /\ a \in Chain(b)
    /\ a = b \/ nChainTrust[a] > nChainTrust[pindexBest]
    /\ a = Genesis \/ nChainTrust[pprev(a)] <= nChainTrust[pindexBest]

\* Mutant: the failure is not recorded.
InvalidChainIgnored(b) == UNCHANGED nBestInvalidTrust

\* InvalidChainFound()
InvalidChainFound(b) ==
    nBestInvalidTrust' = IF nChainTrust[b] > nBestInvalidTrust
                         THEN nChainTrust[b] ELSE nBestInvalidTrust

\* "Update best block in wallet", left out while IsInitialBlockDownload(), which
\* depends on the clock.
UpdateWalletBest(b) == dskWalletBest' \in {dskWalletBest, b}

-----------------------------------------------------------------------------
(* Actions *)

\* Mutant: the record is not written.
WriteBlockIndexLost(b) == UNCHANGED <<dskIndex, dskNext>>

\* "Write to disk block index"
WriteBlockIndex(b) ==
    /\ dskIndex' = dskIndex \cup {b}
    /\ dskNext' = [dskNext EXCEPT ![b] = NULL]

\* "New best"
IsNewBest(b) == nChainTrust[b] > nChainTrust[pindexBest]

\* AcceptBlock() and AddToBlockIndex(): the block enters the index in memory and,
\* in a transaction of its own, on disk.  SetBestChain() follows if it has more
\* trust than the best block.
AddToBlockIndex(b) ==
    /\ pc = "idle"
    /\ b \notin mapBlockIndex
    /\ b # Genesis /\ pprev(b) \in mapBlockIndex
    /\ mapBlockIndex' = mapBlockIndex \cup {b}
    /\ pnext' = [pnext EXCEPT ![b] = NULL]
    /\ WriteBlockIndex(b)
    /\ IF IsNewBest(b)
       THEN pc' = "setbest" /\ pindexNew' = b
       ELSE UNCHANGED <<pc, pindexNew>>
    /\ UNCHANGED <<pindexBest, dskBest, dskConnected, pindexTip,
                   nBestInvalidTrust, dskWalletBest, crashes, stale>>

\* SetBestChainInner() commits: ConnectBlock() and WriteHashBestChain() on disk,
\* then the link to the block in memory.
SetBestChainInner(b) ==
    /\ TRUE \in ConnectOutcomes(b)
    /\ dskConnected' = dskConnected \cup {b}
    /\ dskNext' = RelinkOnDisk({}, {b})
    /\ dskBest' = b
    /\ pnext' = Relink(pnext, {}, {b})
    /\ UNCHANGED <<mapBlockIndex, dskIndex, nBestInvalidTrust>>

\* SetBestChainInner() fails: TxnAbort(), the block stays in the index.
SetBestChainInnerFails(b) ==
    /\ FALSE \in ConnectOutcomes(b)
    /\ InvalidChainFound(b)
    /\ UNCHANGED <<mapBlockIndex, pnext, disk>>

\* SetBestChain() returns an error.
ReturnError ==
    /\ pc' = "idle" /\ pindexNew' = NULL
    /\ UNCHANGED <<pindexBest, pindexTip, dskWalletBest, crashes, stale>>

\* Mutant: memory keeps the old best block.
NewBestBlockForgotten ==
    /\ UpdateWalletBest(pindexNew)
    /\ pc' = "idle" /\ pindexNew' = NULL /\ pindexTip' = NULL
    /\ UNCHANGED <<pindexBest, crashes>>

\* "New best block": memory takes pindexNew for the best block.
NewBestBlock ==
    /\ UpdateWalletBest(pindexNew)
    /\ pindexBest' = pindexNew
    /\ pc' = "idle" /\ pindexNew' = NULL /\ pindexTip' = NULL
    /\ UNCHANGED crashes

\* SetBestChain(), the new block extends the best block.
ExtendBestChain ==
    /\ pc = "setbest"
    /\ pprev(pindexNew) = pindexBest
    /\ \/ SetBestChainInner(pindexNew) /\ NewBestBlock /\ UNCHANGED stale
       \/ SetBestChainInnerFails(pindexNew) /\ ReturnError

\* SetBestChain(), the new block is elsewhere: Reorganize() to the first block
\* of its chain that has more trust than the best block, in one transaction.
Reorganize ==
    /\ pc = "setbest"
    /\ pprev(pindexNew) # pindexBest
    /\ \E pindexIntermediate \in Block :
          /\ IsIntermediate(pindexIntermediate, pindexNew)
          /\ TRUE \in ReorganizeOutcomes(pindexIntermediate)
          /\ LET vDisconnect == Chain(pindexBest) \ Chain(pindexIntermediate)
                 vConnect == Chain(pindexIntermediate) \ Chain(pindexBest)
             IN  /\ dskConnected' = (dskConnected \ vDisconnect) \cup vConnect
                 /\ dskNext' = RelinkOnDisk(vDisconnect, vConnect)
                 /\ pnext' = Relink(pnext, vDisconnect, vConnect)
          /\ dskBest' = pindexIntermediate
          /\ pindexTip' = pindexIntermediate
    /\ pc' = "secondary"
    /\ UNCHANGED <<mapBlockIndex, pindexBest, dskIndex, pindexNew,
                   nBestInvalidTrust, dskWalletBest, crashes, stale>>

\* ... a block of the new branch does not connect: TxnAbort().
ReorganizeFails ==
    /\ pc = "setbest"
    /\ pprev(pindexNew) # pindexBest
    /\ \E pindexIntermediate \in Block :
          /\ IsIntermediate(pindexIntermediate, pindexNew)
          /\ FALSE \in ReorganizeOutcomes(pindexIntermediate)
    /\ InvalidChainFound(pindexNew)
    /\ ReturnError
    /\ UNCHANGED <<mapBlockIndex, pnext, disk>>

\* Mutant: the loop does not advance.
ConnectSecondaryStuck ==
    /\ pc = "secondary"
    /\ pindexTip # pindexNew
    /\ LET b == StepTowards(pindexTip, pindexNew)
       IN  SetBestChainInner(b)
    /\ UNCHANGED <<pindexTip, pindexBest, pc, pindexNew, dskWalletBest, crashes, stale>>

\* "Connect further blocks": one SetBestChainInner() per block that is left.
\* "errors now are not fatal": when one fails the loop ends, and SetBestChain()
\* goes on as it does when none is left.
ConnectSecondary ==
    /\ pc = "secondary"
    /\ pindexTip # pindexNew
    /\ LET b == StepTowards(pindexTip, pindexNew)
       IN  \/ /\ SetBestChainInner(b)
              /\ pindexTip' = b
              /\ UNCHANGED <<pindexBest, pc, pindexNew, dskWalletBest, crashes, stale>>
           \/ SetBestChainInnerFails(b) /\ NewBestBlock /\ stale' = stale \cup {pindexNew}

FinishSecondary ==
    /\ pc = "secondary"
    /\ pindexTip = pindexNew
    /\ NewBestBlock
    /\ UNCHANGED <<mapBlockIndex, pnext, disk, nBestInvalidTrust, stale>>

\* The process ends between two commits and is started again: LoadBlockIndex().
Restart ==
    /\ crashes < MaxCrashes
    /\ crashes' = crashes + 1
    /\ mapBlockIndex' = dskIndex
    /\ pnext' = dskNext
    /\ pindexBest' = dskBest
    /\ pc' = "idle" /\ pindexNew' = NULL /\ pindexTip' = NULL
    /\ UNCHANGED <<disk, nBestInvalidTrust, dskWalletBest, stale>>

SetBestChain ==
    \/ ExtendBestChain
    \/ Reorganize
    \/ ReorganizeFails
    \/ ConnectSecondary
    \/ FinishSecondary

Next ==
    \/ \E b \in Block : AddToBlockIndex(b)
    \/ SetBestChain
    \/ Restart

\* SetBestChain() runs to its end unless the process ends.
Spec == Init /\ [][Next]_vars /\ WF_vars(SetBestChain)

-----------------------------------------------------------------------------
(* Properties *)

TypeOK ==
    /\ mapBlockIndex \subseteq Block /\ dskIndex \subseteq Block
    /\ pnext \in [Block -> Block \cup {NULL}]
    /\ dskNext \in [Block -> Block \cup {NULL}]
    /\ pindexBest \in Block /\ dskBest \in Block /\ dskWalletBest \in Block
    /\ dskConnected \subseteq Block
    /\ pc \in {"idle", "setbest", "secondary"}
    /\ pindexNew \in Block \cup {NULL} /\ pindexTip \in Block \cup {NULL}
    /\ nBestInvalidTrust \in Nat
    /\ crashes \in 0..MaxCrashes
    /\ stale \subseteq Block

\* CBlockIndex::IsInMainChain()
IsInMainChain(b) == pnext[b] # NULL \/ b = pindexBest

\* Between two calls memory and disk agree on the best block ("Make sure it's
\* successfully written to disk before changing memory structure"), and the tx
\* index holds the transactions of exactly its chain.
BestChainCommitted ==
    pc = "idle" => /\ dskBest = pindexBest
                   /\ dskConnected = Chain(pindexBest)
                   /\ dskIndex = mapBlockIndex

\* The same, as long as the loop over the further blocks has never broken off.
CommittedUnlessStale == stale = {} => BestChainCommitted

\* The loop breaks off only in a node that was interrupted before: otherwise the
\* block Reorganize() goes to is the new one, and there are no further blocks.  (When
\* SetBestChain() is called for a sync-checkpoint there may be: see SyncCheckpoint.)
StaleOnlyAfterRestart == stale # {} => crashes > 0

\* IsInMainChain(), which looks at pnext only, holds of the ancestors of the best
\* block and of no other block, whatever reorganisations came before.
MainChainMarked ==
    stale = {} /\ pc = "idle" =>
        \A b \in mapBlockIndex : IsInMainChain(b) <=> b \in Chain(pindexBest)

\* Whenever the process ends, the disk describes one chain: hashNext leads along
\* the chain of hashBestChain and nowhere else, its transactions are in the tx
\* index and no others, and every block of it passed ConnectBlock().
DiskDescribesOneChain ==
    stale = {} =>
        /\ dskConnected = Chain(dskBest)
        /\ dskConnected \subseteq ValidBlock
        /\ \A b \in Block :
              dskNext[b] = IF b \in Chain(dskBest) \ {dskBest}
                           THEN StepTowards(b, dskBest) ELSE NULL

\* The links mark the best chain and nothing else: pnext in memory between two calls,
\* hashNext on the disk at every moment.
LinksMarkBestChain == MainChainMarked /\ DiskDescribesOneChain

\* Whenever the process ends, LoadBlockIndex() finds all it looks up: the index
\* on disk has the predecessor and the successor of every block, the best block,
\* and the block the wallet's locator begins with.
DiskLoads ==
    /\ \A b \in dskIndex : /\ b # Genesis => pprev(b) \in dskIndex
                           /\ dskNext[b] \in dskIndex \cup {NULL}
    /\ dskBest \in dskIndex
    /\ dskWalletBest \in dskIndex

\* A node that has not been interrupted follows the heaviest chain it can: a block
\* with more trust than the best block has a block that ConnectBlock() refuses on
\* its chain, and nBestInvalidTrust accounts for it.
HeaviestValid ==
    pc = "idle" /\ crashes = 0 => \A b \in mapBlockIndex :
        nChainTrust[b] > nChainTrust[pindexBest] =>
            /\ ~(Chain(b) \subseteq ValidBlock)
            /\ nChainTrust[b] <= nBestInvalidTrust

\* hashBestChain on disk only ever moves to a block of greater trust, crashes and
\* failed connections included.
TrustGrows ==
    [][dskBest' # dskBest => nChainTrust[dskBest'] > nChainTrust[dskBest]]_vars

\* SetBestChain() ends: the loop over the further blocks reaches pindexNew or stops.
SetBestChainReturns == pc # "idle" ~> pc = "idle"

\* What is on disk moves like the abstract ledger: whatever SetBestChain() does in
\* several transactions, and wherever the process ends, a reader of the disk sees
\* single moves to heavier valid chains (as long as memory is not stale).
L == INSTANCE Ledger WITH known <- dskIndex, best <- dskBest
RefinesLedger ==
    L!Init /\ [][stale' = {} => [L!Next]_<<dskIndex, dskBest>>]_vars
=============================================================================
