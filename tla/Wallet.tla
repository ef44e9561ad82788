------------------------------- MODULE Wallet -------------------------------
(***************************************************************************)
(* The transactions a wallet records and the outputs it takes for spent      *)
(* (wallet.cpp, SyncWithWallets in main.cpp), while the chain is reorganised *)
(* and the pool refuses.  The wallet is told of a block when it is connected *)
(* or disconnected, before the batch is committed and although it may be     *)
(* dropped.  repairwallet runs without cs_main.                              *)
(***************************************************************************)
EXTENDS MemPool

CONSTANT Wallets    \* the sets of outputs to consider as those that pay to the wallet

VARIABLES
    mine,       \* the outputs IsMine() is true of
    mapWallet,  \* [recorded transaction -> its hashBlock, or NULL]
    vfSpent,    \* the outputs of these that are marked as spent
    disturbed   \* history: what a dropped batch or a repair has left wrong in the wallet

walletVars == <<mine, mapWallet, vfSpent, disturbed>>
nodeVars == <<allVars, walletVars>>

\* The records as one value, to say what a loop over transactions makes of them
Records == [mapWallet |-> mapWallet, vfSpent |-> vfSpent]
SetRecords(w) == mapWallet' = w.mapWallet /\ vfSpent' = w.vfSpent

WalletInit ==
    /\ PoolInit
    /\ mine \in Wallets
    /\ mapWallet = <<>> /\ vfSpent = {}
    /\ disturbed = {}

-----------------------------------------------------------------------------
(* CWallet *)

OwnOutputs(t) == {o \in mine : o[1] = t}

\* The outputs of recorded transactions that t takes from the wallet
OwnInputs(w, t) == {o \in Inputs(t) \cap mine : o[1] \in DOMAIN w.mapWallet}

IsFromMe(w, t) == OwnInputs(w, t) # {}

\* WalletUpdateSpent(): what t spends is marked, what it pays is not if it is in a block.
WalletUpdateSpent(w, t, fBlock) ==
    [w EXCEPT !.vfSpent = LET marked == @ \cup OwnInputs(w, t)
                          IN  IF fBlock THEN marked \ OwnOutputs(t) ELSE marked]

\* AddToWallet(): inserted, or merged with the record there is
AddToWallet(w, t, hashBlock) ==
    LET block == IF hashBlock = NULL /\ t \in DOMAIN w.mapWallet THEN w.mapWallet[t] ELSE hashBlock
    IN  WalletUpdateSpent([w EXCEPT !.mapWallet = (t :> block) @@ @], t, hashBlock # NULL)

AddToWalletIfInvolvingMe(w, t, hashBlock) ==
    IF t \in DOMAIN w.mapWallet \/ OwnOutputs(t) # {} \/ IsFromMe(w, t)
    THEN AddToWallet(w, t, hashBlock)
    ELSE WalletUpdateSpent(w, t, FALSE)

\* Mutant: the inputs of a coinstake stay marked.
DisableNothing(w, t) == w

\* "wallets need to refund inputs when disconnecting coinstake"
DisableTransaction(w, t) ==
    IF IsCoinStake(t) THEN [w EXCEPT !.vfSpent = @ \ OwnInputs(w, t)] ELSE w

-----------------------------------------------------------------------------
(* Actions *)

\* A transaction enters the pool.  The wallet is told, unless it was an orphan: then
\* SyncWithWallets() is called for the one that completed it once more.
AcceptAndSync(t) ==
    /\ Accept(t)
    /\ \/ SetRecords(AddToWalletIfInvolvingMe(Records, t, NULL))
       \/ UNCHANGED <<mapWallet, vfSpent>>
    /\ UNCHANGED <<mine, disturbed>>

\* The batch is dropped; the wallet keeps what it was told of other blocks.
Dropped == batch' = NULL
DisturbedByDrop ==
    disturbed' = IF tip = best \/ DOMAIN mapWallet = {} THEN disturbed ELSE {"marks", "places"}

\* ConnectBlock(): "Watch for transactions paying to me"
ConnectAndSync ==
    /\ Connect
    /\ IF Dropped
       THEN DisturbedByDrop /\ UNCHANGED <<mapWallet, vfSpent>>
       ELSE /\ SetRecords(FoldLeft(LAMBDA w, t : AddToWalletIfInvolvingMe(w, t, tip'),
                                   Records, vtx[tip']))
            /\ UNCHANGED disturbed
    /\ UNCHANGED <<mine, poolVars>>

\* DisconnectBlock(): "clean up wallet after disconnecting coinstake"
DisconnectAndSync ==
    /\ Disconnect
    /\ IF Dropped
       THEN DisturbedByDrop /\ UNCHANGED <<mapWallet, vfSpent>>
       ELSE SetRecords(FoldLeft(DisableTransaction, Records, vtx[tip])) /\ UNCHANGED disturbed
    /\ UNCHANGED <<mine, poolVars>>

\* GetDepthInMainChain()
GetDepthInMainChain(t) ==
    IF mapWallet[t] # NULL /\ mapWallet[t] \in Chain(best) THEN Len(best) - Len(mapWallet[t]) + 1
    ELSE IF t \in mapTx THEN 0 ELSE -1

\* AvailableCoins(), with any choice of IsTrusted() and of the user among them
AvailableCoins ==
    {o \in mine \ vfSpent :
        /\ o[1] \in DOMAIN mapWallet
        /\ GetDepthInMainChain(o[1]) >= 0
        /\ IsCoinBase(o[1]) \/ IsCoinStake(o[1])
              => GetDepthInMainChain(o[1]) >= nCoinbaseMaturity}

\* A payment that CreateTransaction() can make
Payable(t) ==
    /\ batch = NULL
    /\ t \notin CoinBase \cup CoinStake \cup NonStandard \cup BadSignature
    /\ t \notin DOMAIN mapWallet \cup mapTx /\ txindex[t] = NULL      \* it is new
    /\ Inputs(t) # {} /\ Inputs(t) \subseteq AvailableCoins

\* CommitTransaction(): recorded, its inputs marked, then offered to the pool: "This must
\* not fail. The transaction has already been signed and recorded."
CommitTransaction(t) ==
    /\ Payable(t)
    /\ SetRecords(AddToWallet(Records, t, NULL))
    /\ \/ Accept(t)
       \/ ~AcceptsInputs(t) /\ UNCHANGED allVars
    /\ UNCHANGED <<mine, disturbed>>

\* FixSpentCoins() of repairwallet: the marks of recorded transactions are set as the tx index
\* on disk has it, at any time.
FixSpentCoins ==
    LET Indexed == {o \in mine : o[1] \in DOMAIN mapWallet /\ txindex[o[1]] # NULL}
        Spent == {o \in Indexed : txindex[o[1]].vSpent[o[2]] # NULL}
    IN  /\ vfSpent' = (vfSpent \ Indexed) \cup Spent
        /\ disturbed' = IF batch = NULL THEN disturbed \ {"marks"}
                        ELSE IF vfSpent' = vfSpent THEN disturbed ELSE disturbed \cup {"marks"}
        /\ UNCHANGED <<allVars, mine, mapWallet>>

WalletNext ==
    \/ \E t \in Tx : AcceptAndSync(t) \/ CommitTransaction(t)
    \/ \E b \in Block : TxnBegin(b) /\ UNCHANGED <<poolVars, walletVars>>
    \/ DisconnectAndSync
    \/ ConnectAndSync
    \/ Commit /\ UNCHANGED walletVars
    \/ FixSpentCoins

-----------------------------------------------------------------------------
(* Properties *)

\* Whatever was sent, accepted and reorganised, the wallet has a record of all that the chain
\* pays it.
OwnRecorded == \A o \in mine : txindex[o[1]] # NULL => o[1] \in DOMAIN mapWallet

\* The wallet counts the confirmations of its transactions from the blocks they are in.
PlacesRight ==
    "places" \notin disturbed =>
        \A t \in DOMAIN mapWallet : txindex[t] # NULL => mapWallet[t] = txindex[t].pos

\* What the chain has spent of the wallet's is marked.
SpentMarked ==
    "marks" \notin disturbed =>
        \A o \in mine : txindex[o[1]] # NULL /\ txindex[o[1]].vSpent[o[2]] # NULL => o \in vfSpent

\* The mark of an output of the chain stands for a recorded spender, and for none that has
\* gone for good: a coinstake counts only while it is on the chain (main.cpp:142: "wallets
\* need to refund inputs when disconnecting coinstake").
MarkedBySpender ==
    "marks" \notin disturbed =>
        \A o \in {x \in vfSpent : txindex[x[1]] # NULL} : \E t \in DOMAIN mapWallet :
            o \in Inputs(t) /\ (IsCoinStake(t) => txindex[t] # NULL)

\* Between two batches the wallet agrees with the chain, unless a batch was dropped after the
\* wallet had been told of some of it, or a repair met an open batch.
WalletFollowsChain ==
    batch = NULL => OwnRecorded /\ PlacesRight /\ SpentMarked /\ MarkedBySpender

\* "This must not fail" (wallet.cpp:1882).  It does: see the README.
PaymentsAccepted == \A t \in Tx : Payable(t) => AcceptsInputs(t)
=============================================================================
