------------------------------ MODULE MemPool -------------------------------
(***************************************************************************)
(* The memory pool (CTxMemPool in main.cpp) beside the transaction index:   *)
(* what accept(), remove() and removeConflicts() do to mapTx and mapNextTx,  *)
(* and how Reorganize() and SetBestChainInner() use them when their batch is *)
(* committed.  Both hold cs_main, so accept() never sees an open batch.      *)
(***************************************************************************)
EXTENDS TxIndex

CONSTANT NonStandard    \* the transactions IsStandard() or AreInputsStandard() refuses

VARIABLES
    mapTx,      \* the transactions of the pool
    mapNextTx   \* [outpoint -> transaction of the pool that spends it]

poolVars == <<mapTx, mapNextTx>>
allVars == <<vars, poolVars>>

\* The pool as one value, to say what a loop over transactions makes of it
Pool == [mapTx |-> mapTx, mapNextTx |-> mapNextTx]

-----------------------------------------------------------------------------
(* CTxMemPool *)

addUnchecked(pool, t) ==
    [mapTx |-> pool.mapTx \cup {t},
     mapNextTx |-> [o \in DOMAIN pool.mapNextTx \cup Inputs(t) |->
                       IF o \in Inputs(t) THEN t ELSE pool.mapNextTx[o]]]

\* Mutant: two transactions of the pool may spend the same output.
AcceptableAnyInput(pool, t) ==
    /\ ~IsCoinBase(t) /\ ~IsCoinStake(t)
    /\ t \notin NonStandard
    /\ t \notin pool.mapTx

\* accept(), the checks made whether or not fCheckInputs is set
Acceptable(pool, t) ==
    /\ ~IsCoinBase(t) /\ ~IsCoinStake(t)
    /\ t \notin NonStandard
    /\ t \notin pool.mapTx
    /\ Inputs(t) \cap DOMAIN pool.mapNextTx = {}

\* FetchInputs() with fBlock and fMiner false: the tx index first, then the pool
PoolView ==
    [p \in Tx |-> IF txindex[p] # NULL THEN txindex[p]
                  ELSE IF p \in mapTx THEN NewTxIndex(NULL, p)
                  ELSE NULL]

\* remove() without fRecursive: a transaction that is not in the pool is left alone.
removeTx(pool, t) ==
    IF t \notin pool.mapTx THEN pool
    ELSE [mapTx |-> pool.mapTx \ {t},
          mapNextTx |-> [o \in DOMAIN pool.mapNextTx \ Inputs(t) |-> pool.mapNextTx[o]]]

\* The transactions of the pool that spend outputs of those in T
Spenders(pool, T) == {pool.mapNextTx[o] : o \in {x \in DOMAIN pool.mapNextTx : x[1] \in T}}

\* The transactions remove(t, true) reaches
Descendants(pool, t) ==
    LET Reach[n \in Nat] ==
            IF n = 0 THEN {t}
            ELSE Reach[n - 1] \cup Spenders(pool, Reach[n - 1])
    IN  Reach[Cardinality(pool.mapTx)]

\* remove() with fRecursive
RemoveRecursive(pool, t) ==
    IF t \notin pool.mapTx THEN pool
    ELSE FoldSet(LAMBDA u, p : removeTx(p, u), pool, Descendants(pool, t))

\* Mutant: what spends the same outputs stays in the pool.
RemoveConflictsNothing(pool, t) == pool

\* removeConflicts(): what else spends an input of t goes, with what depends on it.
RemoveConflicts(pool, t) ==
    LET Conflicts == {pool.mapNextTx[o] : o \in Inputs(t) \cap DOMAIN pool.mapNextTx} \ {t}
    IN  FoldSet(LAMBDA u, p : RemoveRecursive(p, u), pool, Conflicts)

-----------------------------------------------------------------------------
(* The use Reorganize() and SetBestChainInner() make of it *)

\* The blocks of b's chain above the height of its fork with a, from the fork up
Branch(a, b) ==
    LET nFork == Cardinality(Chain(a) \cap Chain(b))
    IN  [i \in 1..(Len(b) - nFork) |-> SubSeq(b, 1, nFork + i)]

\* The transactions of a list of blocks, in its order
TxOf(blocks) == FlattenSeq([i \in 1..Len(blocks) |-> vtx[blocks[i]]])

\* "Resurrect memory transactions that were in the disconnected branch", the
\* newest block's first: AcceptToMemoryPool(txdb, false).
Resurrect(pool, a, b) ==
    FoldLeft(LAMBDA p, t : IF Acceptable(p, t) THEN addUnchecked(p, t) ELSE p,
             pool, TxOf(Reverse(Branch(b, a))))

\* "Delete redundant memory transactions that are in the connected branch"
DeleteConnected(pool, a, b) ==
    FoldLeft(LAMBDA p, t : RemoveConflicts(removeTx(p, t), t), pool, TxOf(Branch(a, b)))

\* SetBestChainInner(): "Delete redundant memory transactions"
DeleteMined(pool, b) == FoldLeft(removeTx, pool, vtx[b])

-----------------------------------------------------------------------------
(* Actions *)

PoolInit ==
    /\ Init
    /\ mapTx = {}
    /\ mapNextTx = <<>>

\* accept(), all checks
AcceptsInputs(t) ==
    /\ Acceptable(Pool, t)
    /\ txindex[t] = NULL
    /\ FetchInputs(PoolView, t)
    /\ CheckInputs(PoolView, best, t)

\* AcceptToMemoryPool(txdb) of a transaction from a peer, the wallet or the user
Accept(t) ==
    /\ batch = NULL
    /\ AcceptsInputs(t)
    /\ mapTx' = addUnchecked(Pool, t).mapTx
    /\ mapNextTx' = addUnchecked(Pool, t).mapNextTx
    /\ UNCHANGED vars

\* TxnCommit() and what follows it: hashPrevBlock == hashBestChain tells
\* SetBestChainInner() from Reorganize().
Commit ==
    /\ TxnCommit
    /\ LET pool == IF pprev(target) = best
                   THEN DeleteMined(Pool, target)
                   ELSE DeleteConnected(Resurrect(Pool, best, target), best, target)
       IN  mapTx' = pool.mapTx /\ mapNextTx' = pool.mapNextTx

PoolNext ==
    \/ \E t \in Tx : Accept(t)
    \/ \E b \in Block : TxnBegin(b) /\ UNCHANGED poolVars
    \/ Disconnect /\ UNCHANGED poolVars
    \/ Connect /\ UNCHANGED poolVars
    \/ Commit

PoolSpec == PoolInit /\ [][PoolNext]_allVars

-----------------------------------------------------------------------------
(* Properties *)

\* mapNextTx is the inverse of the inputs of mapTx: every pointer it holds is to a
\* transaction of the pool that has this input, no input is missing, and so no two
\* transactions of the pool spend the same output.
MapsAgree ==
    /\ DOMAIN mapNextTx = UNION {Inputs(t) : t \in mapTx}
    /\ \A o \in DOMAIN mapNextTx : mapNextTx[o] \in mapTx /\ o \in Inputs(mapNextTx[o])
    /\ \A t, u \in mapTx : t # u => Inputs(t) \cap Inputs(u) = {}

\* A transaction is in the pool or in the chain, never in both.
PoolOffChain == \A t \in mapTx : txindex[t] = NULL

\* After a reorganisation no transaction of the pool spends what a transaction of
\* the newly connected branch spends.
ReorganizeLeavesNoConflict ==
    [][best' # best /\ pprev(best') # best =>
        \A t \in mapTx', u \in ToSet(TxOf(Branch(best, best'))) :
            Inputs(t) \cap Inputs(u) = {}]_allVars

\* Every input of a transaction of the pool is an output of a transaction of the
\* chain or the pool ("all transactions in the memory pool should connect to either
\* transactions in the chain or other transactions in the memory pool").
InputsKnown == \A t \in mapTx : \A o \in Inputs(t) : txindex[o[1]] # NULL \/ o[1] \in mapTx

\* Only a reorganisation can take the transaction away that a transaction of the
\* pool spends from: accept() and a block that extends the chain never do.
ParentsStay ==
    [][(best' = best \/ pprev(best') = best) =>
        \A t \in mapTx \cap mapTx' : \A o \in Inputs(t) :
            (txindex[o[1]] # NULL \/ o[1] \in mapTx)
                => (txindex'[o[1]] # NULL \/ o[1] \in mapTx')]_allVars

\* mapTx and mapNextTx agree with each other and with the chain.
PoolConsistent == MapsAgree /\ PoolOffChain

\* How the pool follows the chain: a reorganisation leaves no conflict with the new branch,
\* and anything else takes away no transaction that one of the pool spends from.
PoolFollowsChain == ReorganizeLeavesNoConflict /\ ParentsStay
=============================================================================
