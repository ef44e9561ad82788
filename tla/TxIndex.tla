------------------------------ MODULE TxIndex -------------------------------
(***************************************************************************)
(* The transaction index and how blocks are connected to it and             *)
(* disconnected from it (main.cpp: ConnectBlock, DisconnectBlock,           *)
(* FetchInputs, ConnectInputs, DisconnectInputs; txdb-leveldb.cpp), in the  *)
(* batch of one call of Reorganize() or SetBestChainInner().                *)
(*                                                                          *)
(* A transaction is a name with its inputs and the values of its outputs;   *)
(* what CheckBlock() and CheckTransaction() establish of a block before it  *)
(* is stored is assumed of the blocks.  Signatures, coin ages and fees      *)
(* enter by their outcome.                                                  *)
(***************************************************************************)
EXTENDS BlockTree, Integers, FiniteSets, SequencesExt

CONSTANTS
    Tx,                 \* the transactions
    vin,                \* [Tx -> Seq(outpoint)], an outpoint is <<tx, n>>
    vout,               \* [Tx -> Seq(Nat)], the values of the outputs
    nTime,              \* [Tx -> Nat]
    CoinBase, CoinStake, \* the transactions of these kinds
    BadSignature,       \* the transactions VerifySignature() refuses
    nStakeSubsidy,      \* [CoinStake -> Nat], what GetCoinAge() earns
    nSubsidy,           \* the proof-of-work subsidy by the height of pindexBest
    nMinFee,            \* GetMinFee()
    nCoinbaseMaturity,
    BlockContents       \* the assignments of contents to blocks to consider

VARIABLES
    vtx,            \* [Block -> Seq(Tx)], what is in the block files
    txindex,        \* disk: [Tx -> CTxIndex or NULL]
    batch,          \* the index as reads in the open transaction see it
    best,           \* hashBestChain on disk, and pindexBest
    tip,            \* the block the batch leads to
    target,         \* the block Reorganize() leads to
    nMoneySupply    \* memory: CBlockIndex::nMoneySupply

vars == <<vtx, txindex, batch, best, tip, target, nMoneySupply>>

IsCoinBase(t) == t \in CoinBase
IsCoinStake(t) == t \in CoinStake
IsProofOfStake(b) == Len(vtx[b]) > 1 /\ IsCoinStake(vtx[b][2])
SumSeq(s) == FoldLeft(LAMBDA x, y : x + y, 0, s)
GetValueOut(t) == SumSeq(vout[t])
Inputs(t) == IF IsCoinBase(t) THEN {} ELSE ToSet(vin[t])

\* CTxIndex(posThisTx, vout.size()): where the transaction is, and for every output
\* where it is spent
NewTxIndex(b, t) == [pos |-> b, vSpent |-> [n \in 1..Len(vout[t]) |-> NULL]]

-----------------------------------------------------------------------------
(* Connecting *)

\* FetchInputs(): every input refers to an output of an indexed transaction.
FetchInputs(view, t) ==
    \A o \in Inputs(t) : /\ view[o[1]] # NULL
                         /\ o[2] \in 1..Len(vout[o[1]])
                         /\ o[2] \in DOMAIN view[o[1]].vSpent

GetValueIn(t) == SumSeq([i \in 1..Len(vin[t]) |-> vout[vin[t][i][1]][vin[t][i][2]]])

\* Mutant: one block too many.
ImmatureOffByOne(p, b) == p \in Chain(b) /\ Len(b) - Len(p) <= nCoinbaseMaturity

\* Is the coinbase or coinstake in block p too young to be spent in block b?
Immature(p, b) == p \in Chain(b) /\ Len(b) - Len(p) < nCoinbaseMaturity

\* ConnectInputs(), the checks
CheckInputs(view, b, t) ==
    /\ \A o \in Inputs(t) :
          /\ (IsCoinBase(o[1]) \/ IsCoinStake(o[1])) => ~Immature(view[o[1]].pos, b)
          /\ nTime[o[1]] <= nTime[t]
          /\ view[o[1]].vSpent[o[2]] = NULL
    /\ t \notin BadSignature
    /\ ~IsCoinStake(t) => GetValueIn(t) >= GetValueOut(t) + nMinFee

\* ConnectInputs(), the effect: the outpoints are marked as spent by t in b.
Spend(view, b, t) ==
    [p \in Tx |->
        IF view[p] = NULL THEN NULL
        ELSE [view[p] EXCEPT !.vSpent =
                 [n \in DOMAIN @ |-> IF <<p, n>> \in Inputs(t) THEN <<b, t>> ELSE @[n]]]]

\* BIP30: "Do not allow blocks that contain transactions which 'overwrite' older
\* transactions, unless those are already completely spent."
Overwrites(index, t) ==
    index[t] # NULL /\ \E n \in DOMAIN index[t].vSpent : index[t].vSpent[n] = NULL

\* The state of the loop over the transactions of a block.  view is the tx index
\* with mapQueuedChanges on top.
Start(index) == [ok |-> TRUE, view |-> index, nFees |-> 0,
                 nValueIn |-> 0, nValueOut |-> 0, nStakeReward |-> 0]

\* ConnectBlock(), the loop's body
ConnectTx(index, b, s, t) ==
    IF ~s.ok \/ Overwrites(index, t)
    THEN [s EXCEPT !.ok = FALSE]
    ELSE IF IsCoinBase(t)
    THEN [s EXCEPT !.view[t] = NewTxIndex(b, t), !.nValueOut = @ + GetValueOut(t)]
    ELSE IF FetchInputs(s.view, t) /\ CheckInputs(s.view, b, t)
    THEN LET nTxValueIn == GetValueIn(t)
             nTxValueOut == GetValueOut(t)
         IN  [s EXCEPT
                !.view = [Spend(s.view, b, t) EXCEPT ![t] = NewTxIndex(b, t)],
                !.nFees = IF IsCoinStake(t) THEN @ ELSE @ + nTxValueIn - nTxValueOut,
                !.nValueIn = @ + nTxValueIn,
                !.nValueOut = @ + nTxValueOut,
                !.nStakeReward = IF IsCoinStake(t) THEN nTxValueOut - nTxValueIn ELSE @]
    ELSE [s EXCEPT !.ok = FALSE]

\* GetProofOfWorkReward(): the subsidy goes by the height of pindexBest.
GetProofOfWorkReward(nFees) == nSubsidy[Len(best) - 1] + nFees
GetProofOfStakeReward(t, nFees) == nStakeSubsidy[t] + nFees

\* ConnectBlock(): the result of the loop, and the check of the reward
ConnectBlock(index, b) ==
    LET s == FoldLeft(LAMBDA acc, t : ConnectTx(index, b, acc, t), Start(index), vtx[b])
        fReward == IF IsProofOfStake(b)
                   THEN s.nStakeReward <= GetProofOfStakeReward(vtx[b][2], s.nFees)
                   ELSE GetValueOut(vtx[b][1]) <= GetProofOfWorkReward(s.nFees)
    IN  [s EXCEPT !.ok = s.ok /\ fReward]

-----------------------------------------------------------------------------
(* Disconnecting *)

\* Mutant: the outpoints stay marked as spent.
DisconnectInputsErasesOnly(s, t) ==
    IF ~s.ok \/ \E o \in Inputs(t) : s.view[o[1]] = NULL
    THEN [s EXCEPT !.ok = FALSE]
    ELSE [s EXCEPT !.view[t] = NULL]

\* DisconnectInputs(): the outpoints are marked as not spent, then the transaction
\* is removed from the index.
DisconnectInputs(s, t) ==
    IF ~s.ok \/ \E o \in Inputs(t) : \/ s.view[o[1]] = NULL
                                     \/ o[2] \notin DOMAIN s.view[o[1]].vSpent
    THEN [s EXCEPT !.ok = FALSE]
    ELSE [s EXCEPT !.view =
            [p \in Tx |->
                IF p = t \/ s.view[p] = NULL THEN NULL
                ELSE [s.view[p] EXCEPT !.vSpent =
                        [n \in DOMAIN @ |-> IF <<p, n>> \in Inputs(t) THEN NULL ELSE @[n]]]]]

\* Mutant: in the order of the block.
DisconnectBlockForward(index, b) ==
    FoldLeft(DisconnectInputs, [ok |-> TRUE, view |-> index], vtx[b])

\* DisconnectBlock(): "Disconnect in reverse order"
DisconnectBlock(index, b) ==
    FoldLeft(DisconnectInputs, [ok |-> TRUE, view |-> index], Reverse(vtx[b]))

-----------------------------------------------------------------------------
(* Actions *)

Init ==
    /\ vtx \in BlockContents
    /\ txindex = [t \in Tx |-> NULL]
    /\ batch = NULL
    /\ best = Genesis /\ tip = Genesis /\ target = Genesis
    /\ nMoneySupply = [b \in Block |-> 0]

\* SetBestChain() is called for a block b that is not in the main chain: because it
\* is heavier, or for the sake of a sync-checkpoint whatever its trust.  TxnBegin().
TxnBegin(b) ==
    /\ batch = NULL
    /\ b \notin Chain(best)
    /\ batch' = txindex
    /\ target' = b
    /\ UNCHANGED <<vtx, txindex, best, tip, nMoneySupply>>

\* The batch is dropped: TxnAbort().
TxnAbort ==
    /\ batch' = NULL
    /\ tip' = best /\ target' = best
    /\ UNCHANGED <<txindex, best>>

\* "Disconnect shorter branch", one block
Disconnect ==
    /\ batch # NULL
    /\ tip \notin Chain(target)
    /\ LET s == DisconnectBlock(batch, tip)
       IN  IF s.ok
           THEN /\ batch' = s.view
                /\ tip' = pprev(tip)
                /\ UNCHANGED <<txindex, best, target>>
           ELSE TxnAbort
    /\ UNCHANGED <<vtx, nMoneySupply>>

\* Mutant: what is spent is not taken off.
SupplyAfterMintOnly(s) == nMoneySupply[tip] + s.nValueOut

\* "track money supply"
SupplyAfter(s) == nMoneySupply[tip] + s.nValueOut - s.nValueIn

\* "Connect longer branch", one block.  nMoneySupply changes in memory.
Connect ==
    /\ batch # NULL
    /\ tip \in Chain(target) \ {target}
    /\ LET b == StepTowards(tip, target)
           s == ConnectBlock(batch, b)
       IN  IF s.ok
           THEN /\ nMoneySupply' = [nMoneySupply EXCEPT ![b] = SupplyAfter(s)]
                /\ batch' = s.view
                /\ tip' = b
                /\ UNCHANGED <<txindex, best, target>>
           ELSE TxnAbort /\ UNCHANGED nMoneySupply
    /\ UNCHANGED vtx

\* WriteHashBestChain() and TxnCommit()
TxnCommit ==
    /\ batch # NULL
    /\ tip = target
    /\ txindex' = batch
    /\ batch' = NULL
    /\ best' = target
    /\ UNCHANGED <<vtx, tip, target, nMoneySupply>>

Next ==
    \/ \E b \in Block : TxnBegin(b)
    \/ Disconnect
    \/ Connect
    \/ TxnCommit

Spec == Init /\ [][Next]_vars

-----------------------------------------------------------------------------
(* Properties *)

\* The transactions of the chain that ends in b, each with its block.  The genesis
\* block's are never indexed.
Placed(b) ==
    UNION {{<<a, vtx[a][i]>> : i \in 1..Len(vtx[a])} : a \in Chain(b) \ {Genesis}}

\* What the tx index of the chain that ends in b is, said of the chain as a whole
IndexOf(b) ==
    [t \in Tx |->
        IF \A x \in Placed(b) : x[2] # t THEN NULL
        ELSE [pos |-> (CHOOSE x \in Placed(b) : x[2] = t)[1],
              vSpent |-> [n \in 1..Len(vout[t]) |->
                 IF \A x \in Placed(b) : <<t, n>> \notin Inputs(x[2]) THEN NULL
                 ELSE CHOOSE x \in Placed(b) : <<t, n>> \in Inputs(x[2])]]]

\* Is the i-th transaction of b in order on the chain before it?  Its inputs are
\* outputs of transactions before it that no transaction before it spends.
InOrder(b, i) ==
    LET t == vtx[b][i]
        Before == Placed(pprev(b)) \cup {<<b, vtx[b][j]>> : j \in 1..(i - 1)}
    IN  /\ \A x \in Before : x[2] # t
        /\ t \notin BadSignature
        /\ \A o \in Inputs(t) :
              /\ \E x \in Before :
                    /\ x[2] = o[1] /\ o[2] \in 1..Len(vout[o[1]])
                    /\ nTime[x[2]] <= nTime[t]
                    /\ x[2] \in CoinBase \cup CoinStake
                          => Len(b) - Len(x[1]) >= nCoinbaseMaturity
              /\ \A x \in Before : o \notin Inputs(x[2])

\* The fees of b's transactions
Fees(b) ==
    LET Paying == {i \in 2..Len(vtx[b]) : ~IsCoinStake(vtx[b][i])}
    IN  MapThenSumSet(LAMBDA i : GetValueIn(vtx[b][i]) - GetValueOut(vtx[b][i]), Paying)

\* Which blocks belong on their chain, said of the chain as a whole
Belongs(b) ==
    /\ \A i \in 1..Len(vtx[b]) : InOrder(b, i)
    /\ \A i \in 2..Len(vtx[b]) :
          ~IsCoinStake(vtx[b][i]) => GetValueIn(vtx[b][i]) >= GetValueOut(vtx[b][i]) + nMinFee
    /\ IF IsProofOfStake(b)
       THEN GetValueOut(vtx[b][2]) - GetValueIn(vtx[b][2]) <= nStakeSubsidy[vtx[b][2]] + Fees(b)
       ELSE GetValueOut(vtx[b][1]) <= nSubsidy[Len(b) - 2] + Fees(b)

\* The index on disk, and at every moment the index the batch would leave, is a
\* function of the chain: reorganising away and back leaves no trace (what the
\* check levels 2 to 6 of LoadBlockIndex() look for).
IndexDescribesChain ==
    /\ txindex = IndexOf(best)
    /\ batch # NULL => batch = IndexOf(tip)

\* ConnectBlock() accepts a block if and only if it belongs on its chain, whichever
\* way Reorganize() came to it.
ConnectVerdict ==
    batch # NULL /\ tip \in Chain(target) \ {target} =>
        LET b == StepTowards(tip, target)
        IN  ConnectBlock(batch, b).ok <=> Belongs(b)

\* A block that was connected can always be disconnected.
CanDisconnect ==
    batch # NULL /\ tip \notin Chain(target) => DisconnectBlock(batch, tip).ok

\* The money supply recorded with the best block is the value of all outputs of the
\* index that are not spent.
MoneySupplyIsUnspent ==
    nMoneySupply[best] =
        MapThenSumSet(LAMBDA o : vout[o[1]][o[2]],
                      UNION {{<<t, n>> : n \in {m \in 1..Len(vout[t]) : txindex[t].vSpent[m] = NULL}}
                                : t \in {u \in Tx : txindex[u] # NULL}})
=============================================================================
