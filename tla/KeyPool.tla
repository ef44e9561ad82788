------------------------------- MODULE KeyPool -------------------------------
(***************************************************************************)
(* The keys of a wallet (wallet.cpp, keystore.cpp, walletdb.h, walletdb.cpp): *)
(* the pool of keys made in advance, the records of wallet.dat, encryption,   *)
(* locking, and the end of the process between any two writes.  A key is      *)
(* handed out as an address (GetKeyFromPool) or as the change of a payment    *)
(* (CReserveKey); the template of a block borrows one.  Whoever reserves a    *)
(* key holds cs_wallet until it is kept or returned: CRPCTable::execute and   *)
(* WalletModel::sendCoins take the lock around the whole call.  pc is where   *)
(* that thread has got to.  Lock() clears the master key outside cs_wallet.   *)
(* Reads and writes of the file do not fail by themselves.  Left out: the     *)
(* default key, which is used in place of one of the pool when that is empty, *)
(* and imported keys.                                                        *)
(***************************************************************************)
EXTENDS Integers, FiniteSets

CONSTANTS
    Key,            \* bound: the keys that are ever made
    Index,          \* bound: the positions in the pool, a range from 1
    PoolSize,       \* -keypool
    NULL

ASSUME KeyPoolAssumption ==
    /\ Index \subseteq Nat
    /\ PoolSize \in Nat
    /\ NULL \notin Key

VARIABLES
    key, ckey,          \* wallet.dat: the keys in plain and in encrypted records
    mkey,               \* wallet.dat: the number of master keys
    pool,               \* wallet.dat: the key of each "pool" record, or NULL
    setKeyPool,         \* memory: positions that may be handed out
    fUseCrypto,
    unlocked,           \* vMasterKey is not empty
    locking,            \* a Lock() that has yet to call LockKeyStore()
    pc,                 \* "idle", "fill", "write", "take", "keep", "reserved", "commit", "erase",
                        \* "renew" or "rewrite"
    op,                 \* the call in progress: "topup", "address", "change", "coinbase" or NULL
    current,            \* its key, or NULL
    position,           \* and position, or 0
    given,              \* history: keys handed out
    twice,              \* history: keys handed out more than once
    plain,              \* history: keys that were ever written in plain
    late,               \* history: of these, the ones taken from the pool after encryption
    mined,              \* history: keys that templates of blocks pay to
    interrupted         \* history: the process ended before NewKeyPool() was through

disk == <<key, ckey, mkey, pool>>
crypto == <<fUseCrypto, unlocked, locking>>
call == <<pc, op, current, position>>
history == <<given, twice, plain, late, mined, interrupted>>
vars == <<disk, setKeyPool, crypto, call, history>>

\* A new wallet.dat
Init ==
    /\ key = {} /\ ckey = {} /\ mkey = 0
    /\ pool = [i \in Index |-> NULL]
    /\ setKeyPool = {}
    /\ fUseCrypto = FALSE /\ unlocked = FALSE /\ locking = FALSE
    /\ pc = "idle" /\ op = NULL /\ current = NULL /\ position = 0
    /\ given = {} /\ twice = {} /\ plain = {} /\ late = {} /\ mined = {} /\ interrupted = FALSE

IsLocked == fUseCrypto /\ ~unlocked

Return ==
    /\ pc' = "idle" /\ op' = NULL /\ current' = NULL /\ position' = 0

\* key.MakeNewKey() never makes the same key again.
Fresh == Key \ (key \cup ckey)

\* GenerateNewKey() with AddKey(): one record of the file, plain or encrypted
StoreNewKey(k) ==
    IF fUseCrypto
      THEN ckey' = ckey \cup {k} /\ UNCHANGED <<key, plain>>
      ELSE key' = key \cup {k} /\ plain' = plain \cup {k} /\ UNCHANGED ckey

\* WritePool() and the insertion in setKeyPool
WritePool(i, k) ==
    /\ pool' = [pool EXCEPT ![i] = k]
    /\ setKeyPool' = setKeyPool \cup {i}

-----------------------------------------------------------------------------
(* TopUpKeyPool(), ReserveKeyFromKeyPool(), GetKeyFromPool() *)

\* A call takes cs_wallet.  A locked wallet makes no new keys.
Begin(o) ==
    /\ pc = "idle"
    /\ o = "topup" => ~IsLocked
    /\ op' = o
    /\ pc' = IF IsLocked THEN "take" ELSE "fill"
    /\ UNCHANGED <<disk, setKeyPool, crypto, current, position, history>>

\* while (setKeyPool.size() < (nTargetSize + 1))
PoolFull == Cardinality(setKeyPool) >= PoolSize + 1

Filled ==
    /\ pc = "fill" /\ PoolFull
    /\ \/ op = "topup" /\ Return
       \/ op # "topup" /\ pc' = "take" /\ UNCHANGED <<op, current, position>>
    /\ UNCHANGED <<disk, setKeyPool, crypto, history>>

GenerateNewKey ==
    /\ Fresh # {}
    /\ current' = CHOOSE k \in Fresh : TRUE
    /\ StoreNewKey(current')

Generate ==
    /\ pc = "fill" /\ ~PoolFull /\ ~IsLocked
    /\ GenerateNewKey
    /\ pc' = "write"
    /\ UNCHANGED <<mkey, pool, setKeyPool, crypto, op, position, given, twice, late,
                   mined, interrupted>>

\* AddKey() fails, and GenerateNewKey() throws: the wallet has been locked since.
GenerateThrows ==
    /\ pc = "fill" /\ ~PoolFull /\ IsLocked
    /\ Return
    /\ UNCHANGED <<disk, setKeyPool, crypto, history>>

\* nEnd = *(--setKeyPool.end()) + 1, or 1 for an empty pool
nEnd == IF setKeyPool = {} THEN 1
        ELSE 1 + CHOOSE i \in setKeyPool : \A j \in setKeyPool : j <= i

Write ==
    /\ pc = "write" /\ nEnd \in Index
    /\ WritePool(nEnd, current)
    /\ current' = NULL /\ pc' = "fill"
    /\ UNCHANGED <<key, ckey, mkey, crypto, op, position, history>>

IsOldest(i) == i \in setKeyPool /\ \A j \in setKeyPool : i <= j

\* Mutant: the position stays in the pool as well.
PeekPool(i) == setKeyPool

\* setKeyPool.erase(setKeyPool.begin());
PoolWithout(i) == setKeyPool \ {i}

\* "Get the oldest key": it stays in the file until it is kept.
Take(i) ==
    /\ pc = "take" /\ IsOldest(i)
    /\ setKeyPool' = PoolWithout(i)
    /\ late' = IF fUseCrypto THEN late \cup ({pool[i]} \cap plain) ELSE late
    /\ IF pool[i] \notin key \cup ckey     \* "read failed", "unknown key in key pool"
         THEN Return
         ELSE /\ pc' = IF op = "address" THEN "keep" ELSE "reserved"
              /\ current' = pool[i] /\ position' = i
              /\ UNCHANGED op
    /\ UNCHANGED <<disk, crypto, given, twice, plain, mined, interrupted>>

\* An empty pool: the call returns without a key of it.
TakeNothing ==
    /\ pc = "take" /\ setKeyPool = {}
    /\ Return
    /\ UNCHANGED <<disk, setKeyPool, crypto, history>>

Give(k) == given' = given \cup {k} /\ twice' = twice \cup (given \cap {k})

\* Mutant: a key that is kept is forgotten in memory only.
KeepInMemory(i) == pool

\* KeepKey(): "Remove from key pool"
KeepKey(i) == [pool EXCEPT ![i] = NULL]

\* KeepKey() and the return of GetKeyFromPool()
Keep ==
    /\ pc = "keep"
    /\ pool' = KeepKey(position)
    /\ Give(current)
    /\ Return
    /\ UNCHANGED <<key, ckey, mkey, setKeyPool, crypto, plain, late, mined, interrupted>>

-----------------------------------------------------------------------------
(* CReserveKey *)

\* CommitTransaction(): "Take key pair from key pool so it won't be used again", KeepKey() ...
CommitTransaction ==
    /\ pc = "reserved" /\ op = "change"
    /\ pool' = KeepKey(position)
    /\ pc' = "commit"
    /\ UNCHANGED <<key, ckey, mkey, setKeyPool, crypto, op, current, position, history>>

\* ... then the payment enters the wallet and the network.
Broadcast ==
    /\ pc = "commit"
    /\ Give(current)
    /\ Return
    /\ UNCHANGED <<disk, setKeyPool, crypto, plain, late, mined, interrupted>>

\* ReturnKey(), by the destructor of the CReserveKey: no change is needed, the payment failed
\* or was not wanted, or the key of the coinbase is in the template of a block.  The key that
\* CheckWork() keeps when that block is found is not this one.  GetOldestKeyPoolTime() takes
\* and returns a key in the same way.
ReturnKey ==
    /\ pc = "reserved"
    /\ setKeyPool' = setKeyPool \cup {position}
    /\ mined' = IF op = "coinbase" THEN mined \cup {current} ELSE mined
    /\ Return
    /\ UNCHANGED <<disk, crypto, given, twice, plain, late, interrupted>>

-----------------------------------------------------------------------------
(* Lock(), Unlock(), EncryptWallet(), NewKeyPool() *)

\* Lock() is through with cs_wallet ...
Lock ==
    /\ pc = "idle" /\ fUseCrypto /\ unlocked /\ ~locking
    /\ locking' = TRUE
    /\ UNCHANGED <<disk, setKeyPool, fUseCrypto, unlocked, call, history>>

\* ... and clears the master key, whoever holds cs_wallet by now.
LockKeyStore ==
    /\ locking
    /\ locking' = FALSE /\ unlocked' = FALSE
    /\ UNCHANGED <<disk, setKeyPool, fUseCrypto, call, history>>

Unlock ==
    /\ pc = "idle" /\ IsLocked
    /\ unlocked' = TRUE
    /\ UNCHANGED <<disk, setKeyPool, fUseCrypto, locking, call, history>>

\* ChangeWalletPassphrase() overwrites the record of the master key.  It leaves the wallet as
\* it was, or locked if the old passphrase is wrong.
ChangeWalletPassphrase ==
    /\ pc = "idle" /\ fUseCrypto
    /\ unlocked' \in {unlocked, FALSE}
    /\ UNCHANGED <<disk, setKeyPool, fUseCrypto, locking, call, history>>

\* Mutant: the plain records stay.
PlainRecordsStay == key

\* WriteCryptedKey(): fEraseUnencryptedKey
PlainRecordsLeft == {}

\* BOOST_FOREACH(KeyMap::value_type& mKey, mapKeys)
Encrypted == ckey \cup key

\* EncryptKeys() in one transaction of the database, then Lock() and Unlock().  The process
\* ends if one of the two fails.  The first key is made when the program first starts.
EncryptWallet ==
    /\ pc = "idle" /\ ~fUseCrypto /\ key # {}
    /\ ckey' = Encrypted /\ key' = PlainRecordsLeft /\ mkey' = mkey + 1
    /\ fUseCrypto' = TRUE /\ unlocked' = TRUE
    /\ pc' = "erase"
    /\ UNCHANGED <<pool, setKeyPool, locking, op, current, position, history>>

\* Mutant: the old keys stay in the file.
ErasedNothing(i) == pool

ErasedPool(i) == [pool EXCEPT ![i] = NULL]

\* NewKeyPool(): "Mark old keypool keys as used", one record at a time
ErasePool(i) ==
    /\ pc = "erase" /\ IsOldest(i)
    /\ pool' = ErasedPool(i)
    /\ setKeyPool' = setKeyPool \ {i}
    /\ UNCHANGED <<key, ckey, mkey, crypto, call, history>>

Erased ==
    /\ pc = "erase" /\ setKeyPool = {}
    /\ pc' = "renew"
    /\ UNCHANGED <<disk, setKeyPool, crypto, op, current, position, history>>

\* "and generate all new keys"
Renew ==
    /\ pc = "renew" /\ Cardinality(setKeyPool) < PoolSize /\ ~IsLocked
    /\ GenerateNewKey
    /\ pc' = "rewrite"
    /\ UNCHANGED <<mkey, pool, setKeyPool, crypto, op, position, given, twice, late, mined,
                   interrupted>>

Rewrite ==
    /\ pc = "rewrite" /\ nEnd \in Index
    /\ WritePool(nEnd, current)
    /\ current' = NULL /\ pc' = "renew"
    /\ UNCHANGED <<key, ckey, mkey, crypto, op, position, history>>

\* The Lock() that ends EncryptWallet()
Renewed ==
    /\ pc = "renew" /\ Cardinality(setKeyPool) = PoolSize
    /\ unlocked' = FALSE
    /\ Return
    /\ UNCHANGED <<disk, setKeyPool, fUseCrypto, locking, history>>

-----------------------------------------------------------------------------
\* The process ends, and LoadWallet() reads the file: every record of the pool may be handed
\* out, and one encrypted key makes the wallet an encrypted one.
Restart ==
    /\ setKeyPool' = {i \in Index : pool[i] # NULL}
    /\ fUseCrypto' = (ckey # {}) /\ unlocked' = FALSE /\ locking' = FALSE
    /\ Return
    /\ interrupted' = (interrupted \/ pc \in {"erase", "renew", "rewrite"})
    /\ UNCHANGED <<disk, given, twice, plain, late, mined>>

Next ==
    \/ \E o \in {"topup", "address", "change", "coinbase"} : Begin(o)
    \/ Filled \/ Generate \/ GenerateThrows \/ Write \/ TakeNothing \/ Keep
    \/ \E i \in Index : Take(i) \/ ErasePool(i)
    \/ CommitTransaction \/ Broadcast \/ ReturnKey
    \/ Lock \/ LockKeyStore \/ Unlock \/ ChangeWalletPassphrase
    \/ EncryptWallet \/ Erased \/ Renew \/ Rewrite \/ Renewed
    \/ Restart

Spec == Init /\ [][Next]_vars

-----------------------------------------------------------------------------
(* Properties *)

\* The types of the state.
TypeOK ==
    /\ key \subseteq Key /\ ckey \subseteq Key /\ mkey \in Nat
    /\ pool \in [Index -> Key \cup {NULL}]
    /\ setKeyPool \subseteq Index
    /\ fUseCrypto \in BOOLEAN /\ unlocked \in BOOLEAN /\ locking \in BOOLEAN
    /\ pc \in {"idle", "fill", "write", "take", "keep", "reserved", "commit", "erase", "renew",
              "rewrite"}
    /\ op \in {"topup", "address", "change", "coinbase", NULL}
    /\ current \in Key \cup {NULL} /\ position \in Index \cup {0}
    /\ given \subseteq Key /\ twice \subseteq Key /\ plain \subseteq Key /\ late \subseteq Key
    /\ mined \subseteq Key /\ interrupted \in BOOLEAN

\* No key is handed out twice as an address or as change (wallet.cpp:1852: "so it won't be
\* used again"), wherever the process ends between the steps of a call.
KeyGivenOnce == twice = {}

\* Every key that was handed out can be found in wallet.dat: what is paid to it is not lost.
GivenStored == given \subseteq key \cup ckey

\* A record of the pool names a key that is in the file, so that no restart finds an
\* "unknown key in key pool" (wallet.cpp:2158).
PoolKeysStored == \A i \in Index : pool[i] # NULL => pool[i] \in key \cup ckey

\* wallet.dat can be loaded: plain and encrypted keys never meet in it, and there is a
\* master key for the encrypted ones (walletdb.cpp: LoadKey and LoadCryptedKey fail).
DiskLoads == (key = {} \/ ckey = {}) /\ (ckey # {} => mkey = 1)

\* ReadPool() finds what setKeyPool promises (wallet.cpp:2156: "read failed"), although the
\* next position is 1 whenever the pool is empty.
PoolReadable == \A i \in setKeyPool : pool[i] # NULL

\* "Mark old keypool keys as used, and generate all new keys" (wallet.cpp:2079): after
\* encryption the pool yields no key that was ever stored in plain, unless encryption was
\* interrupted.
FreshAfterEncryption == ~interrupted => late = {}

\* The key of a coinbase is handed out for nothing else (miner.cpp:465: "Remove key from key
\* pool").  Not so: see the README.
MinedKeyKept == mined \cap given = {}

\* A key is handed out once at most, and only if it is in the file.
GivenOnceAndStored == KeyGivenOnce /\ GivenStored

\* What the pool lists can be handed out: there is a record, and the key of it is stored.
PoolUsable == PoolKeysStored /\ PoolReadable
=============================================================================
