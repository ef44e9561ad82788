SPECIFICATION MinerSpec
CONSTANTS
    Block <- MCBlock
    Genesis <- g
    nChainTrust <- MCTrust
    NULL = NULL
    Tx <- MCTx
    vin <- MCvin
    vout <- MCvout
    nTime <- MCTime
    CoinBase <- MCCoinBase
    CoinStake = {"S"}
    BadSignature = {"U"}
    nStakeSubsidy <- MCStakeSubsidy
    nSubsidy <- MCSubsidy
    nMinFee = 1
    nCoinbaseMaturity = 1
    BlockContents <- MCBlockContents
    NonStandard <- InBlocksOnly
    NewLabel = 9
    Wallets <- MCWallets
CONSTRAINT MCWalletContents
ACTION_CONSTRAINT MCMinerIdle
INVARIANTS IndexDescribesChain  CanDisconnect MoneySupplyIsUnspent
           PoolConsistent WalletFollowsChain SubmittedBlockSound
PROPERTIES PoolFollowsChain
