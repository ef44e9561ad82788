------------------------------- MODULE Miner --------------------------------
(***************************************************************************)
(* Assembling a block from the memory pool (miner.cpp: CreateNewBlock,       *)
(* CheckWork) while the node goes on connecting blocks.  pindexBest is read  *)
(* without a lock; the transactions are collected later, under cs_main and   *)
(* mempool.cs.  Sizes, signature operations and timestamps can make the      *)
(* miner pass over any transaction.                                          *)
(***************************************************************************)
EXTENDS Wallet

CONSTANT NewLabel   \* the label of the block being made

VARIABLES
    stage,          \* where the miner is: "idle", "prev", "collect" or "done"
    pindexPrev,     \* the block the new one will follow
    txs,            \* the transactions of the new block, after its coinbase
    mapTestPool,    \* the tx index with the changes of these on top
    nFees,
    vecPriority,    \* the transactions that can be taken next
    setDependsOn    \* [tx -> the transactions of the pool it waits for]

minerVars == <<stage, pindexPrev, txs, mapTestPool, nFees, vecPriority, setDependsOn>>
everything == <<nodeVars, minerVars>>

MinerInit ==
    /\ WalletInit
    /\ stage = "idle"
    /\ pindexPrev = Genesis
    /\ txs = <<>> /\ nFees = 0
    /\ mapTestPool = NULL
    /\ vecPriority = {} /\ setDependsOn = <<>>

\* CBlockIndex* pindexPrev = pindexBest, without a lock
ReadPrev ==
    /\ stage \in {"idle", "done"}
    /\ stage' = "prev"
    /\ pindexPrev' = best
    /\ txs' = <<>> /\ nFees' = 0
    /\ UNCHANGED <<nodeVars, mapTestPool, vecPriority, setDependsOn>>

\* The transactions of the pool that t has to wait for: those it spends from that
\* are not in the tx index
Dependencies(t) == {o[1] : o \in {x \in Inputs(t) : txindex[x[1]] = NULL}}

\* LOCK2(cs_main, mempool.cs), and the first loop over the pool.  What misses an
\* input ("This should never happen") is passed over.
Lock ==
    /\ stage = "prev"
    /\ batch = NULL
    /\ stage' = "collect"
    /\ mapTestPool' = txindex
    /\ vecPriority' = {t \in mapTx : Dependencies(t) = {}}
    /\ setDependsOn' =
          [t \in {u \in mapTx : Dependencies(u) # {} /\ Dependencies(u) \subseteq mapTx}
              |-> Dependencies(t)]
    /\ UNCHANGED <<nodeVars, pindexPrev, txs, nFees>>

\* Mutant: the miner takes what the pool has.
MinerAcceptsFetched(t) == FetchInputs(mapTestPool, t)

\* Does t connect to the block so far?
MinerAccepts(t) == FetchInputs(mapTestPool, t) /\ CheckInputs(mapTestPool, pindexPrev, t)

\* "Add transactions that depend on this one to the priority queue"
Released(t) == {u \in DOMAIN setDependsOn : setDependsOn[u] = {t}}

\* Take highest priority transaction off the priority queue
TakeTx(t) ==
    /\ stage = "collect"
    /\ t \in vecPriority
    /\ \/ /\ MinerAccepts(t)
          /\ txs' = Append(txs, t)
          /\ nFees' = nFees + GetValueIn(t) - GetValueOut(t)
          /\ mapTestPool' = [Spend(mapTestPool, NULL, t) EXCEPT ![t] = NewTxIndex(NULL, t)]
          /\ vecPriority' = (vecPriority \ {t}) \cup Released(t)
          /\ setDependsOn' = [u \in DOMAIN setDependsOn |-> setDependsOn[u] \ {t}]
       \/ \* it does not connect, or the block's limits leave it out
          /\ vecPriority' = vecPriority \ {t}
          /\ UNCHANGED <<txs, nFees, mapTestPool, setDependsOn>>
    /\ UNCHANGED <<nodeVars, stage, pindexPrev>>

\* The header is filled in, the locks are released.
Finish ==
    /\ stage = "collect"
    /\ vecPriority = {}
    /\ stage' = "done"
    /\ UNCHANGED <<nodeVars, pindexPrev, txs, nFees, mapTestPool, vecPriority, setDependsOn>>

\* The rest of the node, which cannot run while the miner holds the locks and here
\* follows the heaviest chain
Node ==
    /\ stage # "collect"
    /\ WalletNext
    /\ target' # best => nChainTrust[target'] > nChainTrust[best]
    /\ UNCHANGED minerVars

MinerNext ==
    \/ ReadPrev
    \/ Lock
    \/ \E t \in Tx : TakeTx(t)
    \/ Finish
    \/ Node

MinerSpec == MinerInit /\ [][MinerNext]_everything

-----------------------------------------------------------------------------
(* Properties *)

\* CheckWork(), under cs_main: "generated block is stale" otherwise
NotStale == stage = "done" /\ batch = NULL /\ pindexPrev = best

\* The connecting of the new block's transactions
NewBlock == Append(pindexPrev, NewLabel)
Connected ==
    FoldLeft(LAMBDA acc, t : ConnectTx(IndexOf(pindexPrev), NewBlock, acc, t),
             Start(IndexOf(pindexPrev)), txs)

\* A block of the miner that CheckWork() submits is one that ConnectBlock() accepts on
\* its predecessor, whatever happened to the pool and the chain while it was put
\* together.
SubmittedBlockConnects == NotStale => Connected.ok

\* Its coinbase claims the fees its transactions pay, no more and no less.
FeesClaimed == NotStale => Connected.nFees = nFees

\* Both hold of a block that CheckWork() does not find stale.
SubmittedBlockSound == SubmittedBlockConnects /\ FeesClaimed
=============================================================================
